---- MODULE Spec2Model ----
(***************************************************************************)
(* intfp: integer fixed-point and pseudo-logarithmic number library.       *)
(*                                                                         *)
(* A machine word of width W is modelled as the set of the positions of    *)
(* its 1 bits, a subset of 0..W-1.  Every conversion of the library is     *)
(* computed on that representation exactly as the C code computes it on    *)
(* u8/u16/u32/u64 and s8/s16/s32/s64, so that the 64-bit instantiations    *)
(* are modelled at their real width.                                       *)
(***************************************************************************)
EXTENDS Integers, FiniteSets, Sequences, TLC

(* ------------------------------------------------------------------ *)
(* Machine words                                                      *)
(* ------------------------------------------------------------------ *)

\* The bit positions of a word of the given width.
Bits(bits) == 0 .. (bits - 1)

\* The highest set bit of a nonzero word, among the bits lo..hi (bisection).
RECURSIVE TopIn(_, _, _)
TopIn(S, lo, hi) ==
    IF lo = hi THEN lo
    ELSE LET mid == (lo + hi + 1) \div 2
         IN  IF \E i \in S : i >= mid THEN TopIn(S, mid, hi)
             ELSE TopIn(S, lo, mid - 1)

\* The lowest set bit of a nonzero word, among the bits lo..hi (bisection).
RECURSIVE LowIn(_, _, _)
LowIn(S, lo, hi) ==
    IF lo = hi THEN lo
    ELSE LET mid == (lo + hi) \div 2
         IN  IF \E i \in S : i <= mid THEN LowIn(S, lo, mid)
             ELSE LowIn(S, mid + 1, hi)

MaxOf(S) == TopIn(S, 0, 127)
MinOf(S) == LowIn(S, 0, 127)

\* 2^n for 0 <= n <= 30.
Pow2(n) == 2 ^ n

\* The word holding the natural number n (n < 2^31), truncated to the width.
NatWord(n, bits) ==
    {i \in 0 .. (IF n < 256 THEN 7 ELSE 30) : (n \div Pow2(i)) % 2 = 1}
        \cap Bits(bits)

\* The natural number a word holds; only used on words below 2^31.
RECURSIVE WordNat(_)
WordNat(v) ==
    IF v = {} THEN 0
    ELSE LET h == MaxOf(v) IN Pow2(h) + WordNat(v \ {h})

\* v << k and v >> k (logical) in a word of the given width.
Shl(v, k, bits) == {i + k : i \in v} \cap Bits(bits)
Shr(v, k) == {i - k : i \in {j \in v : j >= k}}

\* Conversion to a narrower (or equal) unsigned type keeps the low bits.
Trunc(v, bits) == v \cap Bits(bits)

\* Limb k (13 bits wide) of a word, as a natural number.
Limb(v, k) ==
    LET s[i \in 0 .. 13] ==
            IF i = 13 THEN 0
            ELSE (IF 13 * k + i \in v THEN Pow2(i) ELSE 0) + s[i + 1]
    IN  s[0]

\* a + b modulo 2^bits: the 13-bit limbs are added from the low end, each
\* with the carry of the one below.
AddW(a, b, bits) ==
    LET s0 == Limb(a, 0) + Limb(b, 0)
        s1 == Limb(a, 1) + Limb(b, 1) + (s0 \div 8192)
        s2 == Limb(a, 2) + Limb(b, 2) + (s1 \div 8192)
        s3 == Limb(a, 3) + Limb(b, 3) + (s2 \div 8192)
        s4 == Limb(a, 4) + Limb(b, 4) + (s3 \div 8192)
        s5 == Limb(a, 5) + Limb(b, 5) + (s4 \div 8192)
        s6 == Limb(a, 6) + Limb(b, 6) + (s5 \div 8192)
        s7 == Limb(a, 7) + Limb(b, 7) + (s6 \div 8192)
        s8 == Limb(a, 8) + Limb(b, 8) + (s7 \div 8192)
        s9 == Limb(a, 9) + Limb(b, 9) + (s8 \div 8192)
        L(s, k) == Shl(NatWord(s % 8192, 13), 13 * k, bits)
    IN  IF bits <= 13 THEN L(s0, 0)
        ELSE IF bits <= 26 THEN L(s0, 0) \cup L(s1, 1)
        ELSE IF bits <= 39 THEN L(s0, 0) \cup L(s1, 1) \cup L(s2, 2)
        ELSE IF bits <= 65
        THEN L(s0, 0) \cup L(s1, 1) \cup L(s2, 2) \cup L(s3, 3) \cup L(s4, 4)
        ELSE L(s0, 0) \cup L(s1, 1) \cup L(s2, 2) \cup L(s3, 3) \cup L(s4, 4)
               \cup L(s5, 5) \cup L(s6, 6) \cup L(s7, 7) \cup L(s8, 8)
               \cup L(s9, 9)

\* x * y for two words, exactly (schoolbook product over 13-bit limbs; the
\* operands are below 2^65 and the product is kept to 128 bits).
MulW(x, y) ==
    LET xs  == [k \in 0..4 |-> Limb(x, k)]
        ys  == [k \in 0..4 |-> Limb(y, k)]
        P(i, j) == IF i \in 0..4 /\ j \in 0..4 THEN xs[i] * ys[j] ELSE 0
        col == [c \in 0..9 |-> P(0, c) + P(1, c - 1) + P(2, c - 2)
                                  + P(3, c - 3) + P(4, c - 4)]
        cr[c \in 0..9] == IF c = 0 THEN 0 ELSE (col[c - 1] + cr[c - 1]) \div 8192
    IN  UNION {Shl(NatWord((col[c] + cr[c]) % 8192, 32), 13 * c, 128) : c \in 0..9}

\* -v modulo 2^bits (two's complement): the bits above the lowest 1 flip.
NegW(v, bits) ==
    IF v = {} THEN {}
    ELSE LET l == MinOf(v) IN {l} \cup {i \in (l + 1) .. (bits - 1) : i \notin v}

\* a - b modulo 2^bits.
SubW(a, b, bits) == AddW(a, NegW(b, bits), bits)

\* The word of a C int n (possibly negative) converted to an unsigned type.
IntWord(n, bits) ==
    IF n >= 0 THEN NatWord(n, bits) ELSE NegW(NatWord(0 - n, bits), bits)

\* Unsigned comparison of two words.
LtU(a, b) ==
    LET d == (a \ b) \cup (b \ a) IN d # {} /\ MaxOf(d) \in b
LeU(a, b) == a = b \/ LtU(a, b)

\* Signed (two's complement) comparison of two words of the given width.
IsNeg(v, bits) == (bits - 1) \in v
LtS(a, b, bits) ==
    IF IsNeg(a, bits) # IsNeg(b, bits) THEN IsNeg(a, bits) ELSE LtU(a, b)
LeS(a, b, bits) == a = b \/ LtS(a, b, bits)

\* The width an operand narrower than int has after the integer promotions.
Promoted(bits) == IF bits < 32 THEN 32 ELSE bits

\* Conversion of a signed ib-bit value to a signed ob-bit type.
SignExtended(v, ib, ob) ==
    Trunc(IF IsNeg(v, ib) THEN v \cup (ib .. (ob - 1)) ELSE v, ob)

(* ------------------------------------------------------------------ *)
(* EWMA (INTFP_DECL_BITS)                                             *)
(* ------------------------------------------------------------------ *)

\* Unsigned long division, one bit of n at a time from bit i down: the
\* quotient and the remainder of n / d (d nonzero).
RECURSIVE DivStep(_, _, _, _, _)
DivStep(n, d, i, q, r) ==
    IF i < 0 THEN <<q, r>>
    ELSE LET r1 == Shl(r, 1, 128) \cup (IF i \in n THEN {0} ELSE {})
         IN  IF LtU(r1, d) THEN DivStep(n, d, i - 1, q, r1)
             ELSE DivStep(n, d, i - 1, q \cup {i}, SubW(r1, d, 128))

\* Unsigned short division of a word below 2^65 by a divisor below 2^13,
\* one 13-bit limb of n at a time from the top.
DivShort(n, d) ==
    LET dn == WordNat(d)
        rm[k \in 0 .. 5] ==
            IF k = 5 THEN 0 ELSE (rm[k + 1] * 8192 + Limb(n, k)) % dn
    IN  << UNION { Shl(NatWord((rm[k + 1] * 8192 + Limb(n, k)) \div dn, 13),
                       13 * k, 128) : k \in 0 .. 4 },
           NatWord(rm[0], 13) >>

\* n / d and n % d of unsigned words (d nonzero).
DivModW(n, d) ==
    IF LtU(n, d) THEN <<{}, n>>
    ELSE IF d \subseteq Bits(13) THEN DivShort(n, d)
    ELSE DivStep(n, d, MaxOf(n), {}, {})

\* if (old < bottom_limit) old = bottom_limit (and the same for new).
Clamped(v, bottom_limit, bits) ==
    IF LtS(v, bottom_limit, bits) THEN bottom_limit ELSE v

\* abs_diff = (new > old) ? (new - old) : (old - new), of clamped new # old,
\* converted to u##bits.
ewma_abs_diff(new, old, bits) ==
    IF LtS(old, new, bits) THEN SubW(new, old, bits) ELSE SubW(old, new, bits)

\* The subtraction of abs_diff is done in s32 or s64 (narrower types are
\* promoted to int, where it fits) and the difference exceeds the type:
\* undefined behaviour.
DiffOverflows(new, old, bottom_limit, damper, bits) ==
    /\ bits >= 32 /\ ~LeU(damper, {0})
    /\ LET n == Clamped(new, bottom_limit, bits)
           o == Clamped(old, bottom_limit, bits)
       IN  n # o /\ IsNeg(ewma_abs_diff(n, o, bits), bits)

\* Mutation of ewma_s_fp_div: the quotient is not rounded up.
ewma_s_fp_div_floor(new, old, bottom_limit, damper, bits) ==
    IF LeU(damper, {0}) THEN new
    ELSE LET n == Clamped(new, bottom_limit, bits)
             o == Clamped(old, bottom_limit, bits)
         IN  IF n = o THEN o
             ELSE LET adj_diff == DivModW(ewma_abs_diff(n, o, bits), damper)[1]
                  IN  IF LtS(o, n, bits) THEN AddW(o, adj_diff, bits)
                      ELSE SubW(o, adj_diff, bits)

\* Mutation of ewma_s_fp_div: old is not clamped to bottom_limit.
ewma_s_fp_div_no_clamp(new, old, bottom_limit, damper, bits) ==
    IF LeU(damper, {0}) THEN new
    ELSE LET n == Clamped(new, bottom_limit, bits)
             o == old
         IN  IF n = o THEN o
             ELSE LET qr       == DivModW(ewma_abs_diff(n, o, bits), damper)
                      adj_diff == AddW(qr[1], IF qr[2] # {} THEN {0} ELSE {},
                                       bits)
                  IN  IF LtS(o, n, bits) THEN AddW(o, adj_diff, bits)
                      ELSE SubW(o, adj_diff, bits)

\* ewma_s##bits##fp_div(new, old, bottom_limit, damper), where an overflowing
\* new - old wraps around.
ewma_s_fp_div(new, old, bottom_limit, damper, bits) ==
    IF LeU(damper, {0}) THEN new
    ELSE LET n == Clamped(new, bottom_limit, bits)
             o == Clamped(old, bottom_limit, bits)
         IN  IF n = o THEN o
             ELSE LET qr       == DivModW(ewma_abs_diff(n, o, bits), damper)
                      adj_diff == AddW(qr[1], IF qr[2] # {} THEN {0} ELSE {},
                                       bits)
                  IN  IF LtS(o, n, bits) THEN AddW(o, adj_diff, bits)
                      ELSE SubW(o, adj_diff, bits)

\* abs_diff >> damper, damper a u8: the results the builds can give.  A count
\* that reaches the promoted width of abs_diff is undefined: the count is
\* taken modulo the width, or the result is 0.
ewma_shifted(abs_diff, damper, bits) ==
    LET w == IF bits < 32 THEN 32 ELSE bits
        k == WordNat(damper)
    IN  IF k >= w THEN { Shr(abs_diff, k % w), {} } ELSE { Shr(abs_diff, k) }

\* Mutation of ewma_s_fp_shr: the floor clamp comes before the damper test.
ewma_s_fp_shr_clamp_first(new, old, bottom_limit, damper, bits) ==
    LET n == Clamped(new, bottom_limit, bits)
        o == Clamped(old, bottom_limit, bits)
    IN  IF LeU(damper, {0}) THEN { n }
        ELSE IF n = o THEN { o }
        ELSE { IF LtS(o, n, bits) THEN AddW(o, adj_diff, bits)
               ELSE SubW(o, adj_diff, bits)
             : adj_diff \in ewma_shifted(ewma_abs_diff(n, o, bits), damper, bits) }

\* ewma_s##bits##fp_shr(new, old, bottom_limit, damper): the set of the
\* results the builds can return, where an overflowing new - old wraps around.
ewma_s_fp_shr(new, old, bottom_limit, damper, bits) ==
    IF LeU(damper, {0}) THEN { new }
    ELSE LET n == Clamped(new, bottom_limit, bits)
             o == Clamped(old, bottom_limit, bits)
         IN  IF n = o THEN { o }
             ELSE { IF LtS(o, n, bits) THEN AddW(o, adj_diff, bits)
                    ELSE SubW(o, adj_diff, bits)
                  : adj_diff \in ewma_shifted(ewma_abs_diff(n, o, bits), damper,
                                             bits) }

(* ------------------------------------------------------------------ *)
(* Integer <-> fixed point (INTFP_DECL_HBITS_LBITS)                   *)
(* ------------------------------------------------------------------ *)

\* Each function yields the set of the results the builds can return.  The
\* shifts are evaluated in the promoted type of the hbits-wide operand.  A
\* count that reaches that width is undefined: the count is taken modulo the
\* width, or every bit is shifted out.  A left shift of a signed operand
\* keeps the low bits of the product, as the compilers define it.

\* x >> k of a signed w-bit word: the sign bit is copied in from the top.
Sar(x, k, w) ==
    Shr(x, k) \cup (IF IsNeg(x, w) THEN (w - k) .. (w - 1) ELSE {})

\* u##lbits##_to_u##hbits##fp(v, fp): (u##hbits)v << fp
u_to_ufp(v, fp, hbits, lbits) ==
    LET w == Promoted(hbits)
    IN  IF fp >= w THEN { Trunc(Shl(v, fp % w, w), hbits), {} }
        ELSE { Trunc(Shl(v, fp, w), hbits) }

\* u##hbits##fp_to_u##lbits(v, fp): v >> fp
ufp_to_u(v, fp, hbits, lbits) ==
    LET w == Promoted(hbits)
    IN  IF fp >= w THEN { Trunc(Shr(v, fp % w), lbits), {} }
        ELSE { Trunc(Shr(v, fp), lbits) }

\* s##lbits##_to_s##hbits##fp(v, fp): (s##hbits)v << fp
s_to_sfp(v, fp, hbits, lbits) ==
    LET w == Promoted(hbits)
        x == SignExtended(v, lbits, w)
    IN  IF fp >= w THEN { Trunc(Shl(x, fp % w, w), hbits), {} }
        ELSE { Trunc(Shl(x, fp, w), hbits) }

\* Mutation of sfp_to_s: the shift is logical, zeros come in from the top.
sfp_to_s_logical(v, fp, hbits, lbits) ==
    IF fp >= Promoted(hbits)
    THEN { Trunc(Shr(v, fp % Promoted(hbits)), lbits), {} }
    ELSE { Trunc(Shr(v, fp), lbits) }

\* s##hbits##fp_to_s##lbits(v, fp): v >> fp, an arithmetic shift
sfp_to_s(v, fp, hbits, lbits) ==
    LET w == Promoted(hbits)
        x == SignExtended(v, hbits, w)
    IN  IF fp >= w
        THEN { Trunc(Sar(x, fp % w, w), lbits),
               IF IsNeg(x, w) THEN Bits(lbits) ELSE {} }
        ELSE { Trunc(Sar(x, fp, w), lbits) }

(* ------------------------------------------------------------------ *)
(* Program state                                                      *)
(* ------------------------------------------------------------------ *)

VARIABLES
    hbits,   \* bit-width of the integer / fixed-point type of the call
    lbits,   \* bit-width of the 'loc' / 'log' type of the call
    fp,      \* mantissa bits of the codeword (ofp of encoders, ifp of decoders)
    frac,    \* fractional bits of the fixed-point value
    val,     \* the integer / fixed-point input
    pc,      \* which function returned last
    code,    \* the codeword an encoder returned (or a decoder was given)
    out,     \* the value a decoder returned
    a, b,    \* the two operands of a comparison or of a log-domain product
    log_a,   \* the codeword of a
    log_b,   \* the codeword of b
    log_product,        \* log_a + log_b (s32)
    product_recovered,  \* the decoded log_product
    ibits, obits,       \* codeword widths of a transcoder (rescale: ibits)
    in_fp, out_fp,      \* the ifp and ofp arguments of a transcoder
    type,               \* the u32fp_radix_type argument of a rescale
    back,               \* a rescaled codeword rescaled back to base 2
    width,              \* the width (bits) of an EWMA instantiation
    new, old,           \* the new and old arguments of an EWMA call
    bottom_limit,       \* the bottom_limit argument of an EWMA call
    damper              \* the damper argument of an EWMA call

vars == <<hbits, lbits, fp, frac, val, pc, code, out,
          a, b, log_a, log_b, log_product, product_recovered,
          ibits, obits, in_fp, out_fp, type, back,
          width, new, old, bottom_limit, damper>>

\* The variables of the two-operand scenarios, and those of a single call.
pair_vars == <<a, b, log_a, log_b, log_product, product_recovered>>
call_vars == <<val, code, out>>
\* The arguments of the codeword-to-codeword functions.
conv_vars == <<ibits, obits, in_fp, out_fp, type, back>>
\* The arguments of the EWMA functions.
ewma_vars == <<width, new, old, bottom_limit, damper>>

(* ------------------------------------------------------------------ *)
(* Bit primitives                                                     *)
(* ------------------------------------------------------------------ *)

\* intfp_fls32(v): 32 - clz(v), for a small natural v >= 1.
RECURSIVE intfp_fls32(_)
intfp_fls32(v) == IF v = 0 THEN 0 ELSE 1 + intfp_fls32(v \div 2)

\* __intfp_clz(v, bits): the number of leading zero bits of a nonzero word.
intfp_clz(v, bits) == (bits - 1) - MaxOf(v)

\* The widths unsigned long has on the supported platforms (ILP32, LP64).
ULONG_BITS == {32, 64}

\* intfp_bitmask(h, bits): ~0ULL >> (63 - h) for 64 bits, else ~0UL >> (31 - h),
\* where unsigned long has ulong bits.
intfp_bitmask(h, bits, ulong) ==
    IF bits = 64 THEN Shr(Bits(64), 63 - h) ELSE Shr(Bits(ulong), 31 - h)

intfp_unsigned_min(bits) == {0}
intfp_unsigned_max(bits) == Bits(bits)
intfp_signed_min(bits) == {bits - 1}
intfp_signed_max(bits) == Bits(bits) \ {bits - 1}

intfp_loc_0(bits) == intfp_unsigned_min(bits)

\* Mutation of intfp_log_0: the most positive value as the zero sentinel.
intfp_log_0_as_max(bits) == Bits(bits) \ {bits - 1}

intfp_log_0(bits) == intfp_signed_min(bits)

\* intfp_loc_fpmax(int_bits, loc_bits), returned as a u8
intfp_loc_fpmax(int_bits, loc_bits) ==
    (loc_bits - intfp_fls32(int_bits - 1)) % 256

\* Mutation of intfp_log_fpmax: no bit is set aside for the sign.
intfp_log_fpmax_no_sign(int_bits, loc_bits) ==
    (loc_bits - intfp_fls32(int_bits - 1)) % 256

\* intfp_log_fpmax(int_bits, loc_bits), returned as a u8
intfp_log_fpmax(int_bits, loc_bits) ==
    ((loc_bits - 1) - intfp_fls32(int_bits - 1)) % 256

(* ------------------------------------------------------------------ *)
(* 'loc' codec (INTFP_DECL_HBITS_LBITS)                               *)
(* ------------------------------------------------------------------ *)

\* Mutation of u_to_loc_fp: 0 and 1 are returned as they are (v, not !v).
u_to_loc_fp_no_swap(v, ofp, hb, lb) ==
    IF v = {} \/ v = {0} THEN v
    ELSE LET clz == intfp_clz(v, hb)
             m   == Trunc(Shr(Shl(v, clz, hb), (hb - 1) - ofp), lb)
         IN  AddW(Shl(IntWord((hb - 2) - clz, lb), ofp, lb), m, lb)

\* Mutation of u_to_loc_fp: exponent and mantissa are OR-ed, not added.
u_to_loc_fp_or(v, ofp, hb, lb) ==
    IF v = {} THEN {0}
    ELSE IF v = {0} THEN {}
    ELSE LET clz == intfp_clz(v, hb)
             m   == Trunc(Shr(Shl(v, clz, hb), (hb - 1) - ofp), lb)
         IN  Shl(IntWord((hb - 2) - clz, lb), ofp, lb) \cup m

\* u##hbits##_to_loc##lbits##fp(v, ofp)
u_to_loc_fp(v, ofp, hb, lb) ==
    IF v = {} THEN {0}
    ELSE IF v = {0} THEN {}
    ELSE LET clz == intfp_clz(v, hb)
             m   == Trunc(Shr(Shl(v, clz, hb), (hb - 1) - ofp), lb)
         IN  AddW(Shl(IntWord((hb - 2) - clz, lb), ofp, lb), m, lb)

\* u##hbits##_to_loc##lbits##fpmax(v)
u_to_loc_fpmax(v, hb, lb) == u_to_loc_fp(v, intfp_loc_fpmax(hb, lb), hb, lb)

\* Mutation of loc_fp_to_u: the overflow test is e > hbits.
loc_fp_to_u_late_sat(v, ifp, hb, lb, ulong) ==
    IF v = intfp_loc_0(lb) THEN {}
    ELSE LET e == Shr(v, ifp)
         IN  IF LtU(NatWord(hb, lb), e) THEN intfp_unsigned_max(hb)
             ELSE LET m    == Trunc(v \cap intfp_bitmask(ifp - 1, lb, ulong), hb)
                      norm == {hb - 1} \cup Shl(m, (hb - 1) - ifp, hb)
                  IN  IF e = NatWord(hb, lb) THEN Shl(norm, 1, hb)
                      ELSE Shr(norm, (hb - 1) - WordNat(e))

\* loc##lbits##fp_to_u##hbits(v, ifp)
loc_fp_to_u(v, ifp, hb, lb, ulong) ==
    IF v = intfp_loc_0(lb) THEN {}
    ELSE LET e == Shr(v, ifp)
         IN  IF ~LtU(e, NatWord(hb, lb)) THEN intfp_unsigned_max(hb)
             ELSE LET m    == Trunc(v \cap intfp_bitmask(ifp - 1, lb, ulong), hb)
                      norm == {hb - 1} \cup Shl(m, (hb - 1) - ifp, hb)
                  IN  Shr(norm, (hb - 1) - WordNat(e))

\* loc##lbits##fpmax_to_u##hbits(v): the codeword is passed as a u##hbits.
loc_fpmax_to_u(v, hb, lb, ulong) ==
    loc_fp_to_u(Trunc(v, lb), intfp_loc_fpmax(hb, lb), hb, lb, ulong)

(* ------------------------------------------------------------------ *)
(* 'log' codec (INTFP_DECL_HBITS_LBITS)                               *)
(* ------------------------------------------------------------------ *)

\* Mutation of ufp_to_log_fp: exponent and mantissa are OR-ed, not added.
ufp_to_log_fp_or(v, ifp, ofp, hb, lb) ==
    IF v = {} THEN intfp_log_0(lb)
    ELSE LET clz == intfp_clz(v, hb)
             m   == Trunc(Shr(Shl(v, clz, hb), (hb - 1) - ofp), lb)
         IN  Shl(IntWord(((hb - 2) - clz) - ifp, lb), ofp, lb) \cup m

\* u##hbits##fp_to_log##lbits##fp(v, ifp, ofp)
ufp_to_log_fp(v, ifp, ofp, hb, lb) ==
    IF v = {} THEN intfp_log_0(lb)
    ELSE LET clz == intfp_clz(v, hb)
             m   == Trunc(Shr(Shl(v, clz, hb), (hb - 1) - ofp), lb)
         IN  AddW(Shl(IntWord(((hb - 2) - clz) - ifp, lb), ofp, lb), m, lb)

\* u##hbits##fp_to_log##lbits##fpmax(v, ifp)
ufp_to_log_fpmax(v, ifp, hb, lb) ==
    ufp_to_log_fp(v, ifp, intfp_log_fpmax(hb, lb), hb, lb)

\* u##hbits##_to_log##lbits##fp(v, ofp)
u_to_log_fp(v, ofp, hb, lb) == ufp_to_log_fp(v, 0, ofp, hb, lb)

\* u##hbits##_to_log##lbits##fpmax(v)
u_to_log_fpmax(v, hb, lb) == ufp_to_log_fpmax(v, 0, hb, lb)

\* Mutation of log_fp_to_ufp: the overflow test is scaled_e >= hbits - 1.
log_fp_to_ufp_early_sat(v, ifp, ofp, hb, lb, ulong) ==
    IF v = intfp_log_0(lb) THEN {}
    ELSE LET negative == IsNeg(v, lb)
             av       == IF negative THEN NegW(v, lb) ELSE v
             e0       == Shr(av, ifp)
             e        == IF negative THEN NegW(e0, lb) ELSE e0
             scaled_e == AddW(e, NatWord(ofp, lb), lb)
         IN  IF IsNeg(scaled_e, lb) THEN {}
             ELSE IF ~LtU(scaled_e, NatWord(hb - 1, lb))
                  THEN intfp_unsigned_max(hb)
             ELSE LET m    == Trunc(av \cap intfp_bitmask(ifp - 1, lb, ulong), hb)
                      norm == {hb - 1} \cup Shl(m, (hb - 1) - ifp, hb)
                  IN  Shr(norm, (hb - 1) - WordNat(scaled_e))

\* log##lbits##fp_to_u##hbits##fp(v, ifp, ofp)
log_fp_to_ufp(v, ifp, ofp, hb, lb, ulong) ==
    IF v = intfp_log_0(lb) THEN {}
    ELSE LET negative == IsNeg(v, lb)
             av       == IF negative THEN NegW(v, lb) ELSE v
             e0       == Shr(av, ifp)
             e        == IF negative THEN NegW(e0, lb) ELSE e0
             scaled_e == AddW(e, NatWord(ofp, lb), lb)
         IN  IF IsNeg(scaled_e, lb) THEN {}
             ELSE IF ~LtU(scaled_e, NatWord(hb, lb)) THEN intfp_unsigned_max(hb)
             ELSE LET m    == Trunc(av \cap intfp_bitmask(ifp - 1, lb, ulong), hb)
                      norm == {hb - 1} \cup Shl(m, (hb - 1) - ifp, hb)
                  IN  Shr(norm, (hb - 1) - WordNat(scaled_e))

\* log##lbits##fpmax_to_u##hbits##fp(v, ofp)
log_fpmax_to_ufp(v, ofp, hb, lb, ulong) ==
    log_fp_to_ufp(v, intfp_log_fpmax(hb, lb), ofp, hb, lb, ulong)

\* log##lbits##fp_to_u##hbits(v, ifp)
log_fp_to_u(v, ifp, hb, lb, ulong) == log_fp_to_ufp(v, ifp, 0, hb, lb, ulong)

\* log##lbits##fpmax_to_u##hbits(v)
log_fpmax_to_u(v, hb, lb, ulong) == log_fpmax_to_ufp(v, 0, hb, lb, ulong)

(* ------------------------------------------------------------------ *)
(* Corrected 'log' codec (the _corr variants)                         *)
(* ------------------------------------------------------------------ *)

\* The _corr functions are called by the tests and described in the README;
\* their definitions are taken from the description: two 256-entry tables of
\* 16-bit entries, indexed by the top 8 bits of the mantissa, that hold
\* c * m * (1 - m) for m = i / 256 with 16 fractional bits, c = 89 / 256 for
\* the encoder and 88 / 256 for the decoder.

\* Mutation of intfp_corr_enc: the entries are rounded up past the quotient.
intfp_corr_enc_round_up(i) == ((89 * i * (256 - i)) \div 256) + 1

\* ENC[i]
intfp_corr_enc(i) == (89 * i * (256 - i)) \div 256

\* DEC[i]
intfp_corr_dec(i) == (88 * i * (256 - i)) \div 256

\* The top 8 bits of the m-bit mantissa of a codeword (m >= 8).
intfp_corr_index(v, m) == WordNat(Trunc(Shr(v, m - 8), 8))

\* A table entry aligned with a mantissa of m bits (m >= 16).
intfp_corr_term(entry, m, lb) == Shl(NatWord(entry, 16), m - 16, lb)

\* u##hbits##fp_to_log##lbits##fp_corr(v, ifp, ofp): the uncorrected codeword
\* plus ENC[m_hi]
ufp_to_log_fp_corr(v, ifp, ofp, hb, lb) ==
    IF v = {} THEN intfp_log_0(lb)
    ELSE LET c == ufp_to_log_fp(v, ifp, ofp, hb, lb)
         IN  AddW(c, intfp_corr_term(intfp_corr_enc(intfp_corr_index(c, ofp)),
                                     ofp, lb), lb)

\* u##hbits##_to_log##lbits##fpmax_corr(v)
u_to_log_fpmax_corr(v, hb, lb) ==
    ufp_to_log_fp_corr(v, 0, intfp_log_fpmax(hb, lb), hb, lb)

\* log##lbits##fp_to_u##hbits##fp_corr(v, ifp, ofp): the uncorrected decoding
\* of the codeword whose mantissa has DEC[m_hi] taken off
log_fp_to_ufp_corr(v, ifp, ofp, hb, lb, ulong) ==
    IF v = intfp_log_0(lb) THEN {}
    ELSE LET negative == IsNeg(v, lb)
             av       == IF negative THEN NegW(v, lb) ELSE v
             m        == SubW(av,
                              intfp_corr_term(
                                  intfp_corr_dec(intfp_corr_index(av, ifp)),
                                  ifp, lb), lb)
         IN  log_fp_to_ufp(IF negative THEN NegW(m, lb) ELSE m, ifp, ofp,
                           hb, lb, ulong)

\* log##lbits##fpmax_to_u##hbits##_corr(v)
log_fpmax_to_u_corr(v, hb, lb, ulong) ==
    log_fp_to_ufp_corr(v, intfp_log_fpmax(hb, lb), 0, hb, lb, ulong)

(* ------------------------------------------------------------------ *)
(* Transcoders (INTFP_DECL_IBITS_OBITS)                               *)
(* ------------------------------------------------------------------ *)
\* Each transcoder yields the set of the results the builds can return: one
\* result where C defines the expression, more where it does not.

\* Conversion of a promoted operand to an ob-bit type: an int (ib < 32) that
\* is negative is sign-extended, an unsigned word zero-extended; then the low
\* ob bits are kept.
Converted(x, ib, ob) ==
    Trunc(IF ib < 32 /\ 31 \in x THEN x \cup (32 .. (ob - 1)) ELSE x, ob)

\* (ifp < ofp) ? (v << (ofp - ifp)) : (v >> (ifp - ofp)) on the bits of an
\* ib-bit operand, converted to an ob-bit type (ifp # ofp).  A left shift of
\* an int that overflows keeps the low 32 bits.  A shift count that reaches
\* the operand's promoted width is undefined: the count is taken modulo the
\* width, or the result is 0.
Shifted(v, ifp, ofp, ib, ob) ==
    LET w == Promoted(ib)
    IN  IF ifp < ofp
        THEN IF ofp - ifp >= w
             THEN { Converted(Shl(v, (ofp - ifp) % w, w), ib, ob), {} }
             ELSE { Converted(Shl(v, ofp - ifp, w), ib, ob) }
        ELSE IF ifp - ofp >= w
             THEN { Converted(Shr(v, (ifp - ofp) % w), ib, ob), {} }
             ELSE { Converted(Shr(v, ifp - ofp), ib, ob) }

\* loc##ibits##fp_to_loc##obits##fp(v, ifp, ofp)
loc_fp_to_loc_fp(v, ifp, ofp, ib, ob) ==
    IF v = intfp_loc_0(ib) THEN { intfp_loc_0(ob) }
    ELSE IF ifp = ofp THEN { Trunc(v, ob) }
    ELSE Shifted(v, ifp, ofp, ib, ob)

\* loc##ibits##fpmax_to_loc##obits##fpmax(v)
loc_fpmax_to_loc_fpmax(v, ib, ob) ==
    loc_fp_to_loc_fp(v, ib - intfp_fls32(ib - 1), ob - intfp_fls32(ib - 1),
                     ib, ob)

\* Mutation of log_fp_to_log_fp: the zero sentinel is shifted like any other
\* codeword.
log_fp_to_log_fp_no_sentinel(v, ifp, ofp, ib, ob) ==
    IF ifp = ofp THEN { SignExtended(v, ib, ob) }
    ELSE Shifted(v, ifp, ofp, ib, ob)

\* log##ibits##fp_to_log##obits##fp(v, ifp, ofp)
log_fp_to_log_fp(v, ifp, ofp, ib, ob) ==
    IF v = intfp_log_0(ib) THEN { intfp_log_0(ob) }
    ELSE IF ifp = ofp THEN { SignExtended(v, ib, ob) }
    ELSE Shifted(v, ifp, ofp, ib, ob)

\* log##ibits##fpmax_to_log##obits##fpmax(v)
log_fpmax_to_log_fpmax(v, ib, ob) ==
    log_fp_to_log_fp(v, (ib - 1) - intfp_fls32(ib - 1),
                     (ob - 1) - intfp_fls32(ib - 1), ib, ob)

\* loc##ibits##fp_to_log##obits##fp(v, ifp, ofp)
loc_fp_to_log_fp(v, ifp, ofp, ib, ob) ==
    IF v = intfp_loc_0(ib) THEN { intfp_log_0(ob) }
    ELSE IF ifp = ofp THEN { Trunc(v, ob) }
    ELSE Shifted(v, ifp, ofp, ib, ob)

\* loc##ibits##fpmax_to_log##obits##fpmax(v)
loc_fpmax_to_log_fpmax(v, ib, ob) ==
    loc_fp_to_log_fp(v, ib - intfp_fls32(ib - 1),
                     (ob - 1) - intfp_fls32(ib - 1), ib, ob)

\* Mutation of log_fp_to_loc_fp: only the zero sentinel, not every negative
\* codeword, is mapped to the 'loc' zero.
log_fp_to_loc_fp_only_sentinel(v, ifp, ofp, ib, ob) ==
    IF v = intfp_log_0(ib) THEN { intfp_loc_0(ob) }
    ELSE IF ifp = ofp THEN { Trunc(v, ob) }
    ELSE Shifted(v, ifp, ofp, ib, ob)

\* log##ibits##fp_to_loc##obits##fp(v, ifp, ofp)
log_fp_to_loc_fp(v, ifp, ofp, ib, ob) ==
    IF IsNeg(v, ib) THEN { intfp_loc_0(ob) }
    ELSE IF ifp = ofp THEN { Trunc(v, ob) }
    ELSE Shifted(v, ifp, ofp, ib, ob)

\* log##ibits##fpmax_to_loc##obits##fpmax(v)
log_fpmax_to_loc_fpmax(v, ib, ob) ==
    log_fp_to_loc_fp(v, (ib - 1) - intfp_fls32(ib - 1),
                     ob - intfp_fls32(ib - 1), ib, ob)

(* ------------------------------------------------------------------ *)
(* Radix rescale (INTFP_DECL_BITS_UP_TO_32)                           *)
(* ------------------------------------------------------------------ *)

\* The 32-bit word written with the given hexadecimal digits.
HexWord(ds) ==
    UNION { Shl(NatWord(ds[i], 4), 4 * (Len(ds) - i), 32) : i \in 1 .. Len(ds) }

\* Mutation of u32fp_radix_tbl: the 'from' constant of the 1.25 radix is the
\* reciprocal of its 'to' constant.
u32fp_radix_tbl_reciprocal ==
    [ U32FP_RADIX_TYPE_DB_POWER |->
        [ to   |-> HexWord(<<12, 0, 10, 8, 12, 1, 2, 9>>), to_shr   |-> 30,
          from |-> HexWord(<<5, 5, 0, 10, 9, 6, 8, 6>>),   from_shr |-> 32 ],
      U32FP_RADIX_TYPE_1_25 |->
        [ to   |-> HexWord(<<12, 6, 12, 13, 5, 10, 3, 11>>), to_shr   |-> 30,
          from |-> HexWord(<<5, 2, 6, 9, 14, 1, 3, 0>>),     from_shr |-> 32 ] ]

\* u32fp_radix_tbl[type]
u32fp_radix_tbl ==
    [ U32FP_RADIX_TYPE_DB_POWER |->
        [ to   |-> HexWord(<<12, 0, 10, 8, 12, 1, 2, 9>>), to_shr   |-> 30,
          from |-> HexWord(<<5, 5, 0, 10, 9, 6, 8, 6>>),   from_shr |-> 32 ],
      U32FP_RADIX_TYPE_1_25 |->
        [ to   |-> HexWord(<<12, 6, 12, 13, 5, 10, 3, 11>>), to_shr   |-> 30,
          from |-> HexWord(<<5, 2, 6, 9, 14, 1, 1, 10>>),    from_shr |-> 32 ] ]

\* s##bits temp = ((u64)v * c) >> shr, with v = -v first for a negative v
\* (v is neither 0 nor the zero sentinel).
rescale_temp(v, bits, c, shr) ==
    LET av == IF IsNeg(v, bits) THEN NegW(v, bits) ELSE v
    IN  Trunc(Shr(Trunc(MulW(av, c), 64), shr), bits)

\* rescale_log##bits##fp_to_radix(v, type), where -temp wraps around.
rescale_log_fp_to_radix(v, bits, t) ==
    LET radix == u32fp_radix_tbl[t]
    IN  IF v = {} \/ v = intfp_log_0(bits) THEN v
        ELSE LET temp == rescale_temp(v, bits, radix.to, radix.to_shr)
             IN  IF IsNeg(v, bits) THEN NegW(temp, bits) ELSE temp

\* rescale_log##bits##fp_from_radix(v, type), where -temp wraps around.
rescale_log_fp_from_radix(v, bits, t) ==
    LET radix == u32fp_radix_tbl[t]
    IN  IF v = {} \/ v = intfp_log_0(bits) THEN v
        ELSE LET temp == rescale_temp(v, bits, radix.from, radix.from_shr)
             IN  IF IsNeg(v, bits) THEN NegW(temp, bits) ELSE temp

\* temp = -temp is evaluated on the most negative s32 (types narrower than
\* int negate in int, where the result fits): undefined behaviour.
NegatesMin(v, bits, c, shr) ==
    /\ bits = 32 /\ v # {} /\ v # intfp_log_0(bits) /\ IsNeg(v, bits)
    /\ rescale_temp(v, bits, c, shr) = intfp_signed_min(bits)

(* ------------------------------------------------------------------ *)
(* Inputs                                                             *)
(* ------------------------------------------------------------------ *)

\* Bits enumerated exhaustively just below the leading 1 of a sampled word.
MantTop == 1
\* Mantissa budgets down to NearM below the max-precision 'log' budget are
\* enumerated (with the narrowest budget, 1).
NearM == 0
\* Fractional-bit counts 0..LowF (and the widest, hbits - 1) are enumerated.
LowF == 1

\* The (hbits, lbits) pairs INTFP_DECL_HBITS_LBITS is instantiated with.
HBITS_LBITS ==
    { <<8, 8>>, <<16, 8>>, <<32, 8>>, <<64, 8>>, <<16, 16>>, <<32, 16>>,
      <<64, 16>>, <<32, 32>>, <<64, 32>>, <<64, 64>> }

\* Words with the leading 1 at bit k and every pattern of the MantTop bits
\* below it (the bits further down all zero), and the word of k+1 ones.
PatternWords(bits) ==
    UNION { LET lo == IF k > MantTop THEN k - MantTop ELSE 0
            IN  { {k} \cup top : top \in SUBSET (lo .. (k - 1)) } \cup { 0 .. k }
          : k \in Bits(bits) }

\* The literal values of the demo and the tests.
Literals(bits) ==
    { w \in { NatWord(n, 64) : n \in {1000, 2000, 12345, 50000, 1000000} } :
        w \subseteq Bits(bits) }

\* Input values of an hb-bit unsigned type: all of them for u8.
Samples(hb) ==
    IF hb = 8 THEN SUBSET Bits(8)
    ELSE ({ {} } \cup PatternWords(hb)) \cup Literals(hb)

\* Input codewords of an lb-bit type: all of them for the (8, 8) instantiation,
\* else sampled words and their two's complements (negative 'log' values).
CodeSamples(hb, lb) ==
    IF hb = 8 THEN SUBSET Bits(8)
    ELSE LET S == { {} } \cup PatternWords(lb)
         IN  S \cup { NegW(w, lb) : w \in S }

\* Mantissa budgets of an lb-bit 'loc' codeword of an hb-bit value: from 1 to
\* the max-precision budget; all of them for the (8, 8) instantiation.
MantSet(hb, lb) ==
    { m \in 1 .. intfp_loc_fpmax(hb, lb) :
        \/ hb = 8
        \/ m = 1
        \/ m >= intfp_log_fpmax(hb, lb) - NearM }

\* Whether a budget also fits a 'log' codeword (one bit goes to the sign).
LogBudget(m, hb, lb) == m <= intfp_log_fpmax(hb, lb)

\* Fractional-bit counts of an hb-bit fixed-point value.
FracSet(hb) == { f \in 0 .. (hb - 1) : f <= LowF \/ f = hb - 1 }

(* ------------------------------------------------------------------ *)
(* Codec calls                                                        *)
(* ------------------------------------------------------------------ *)

\* No codeword-to-codeword function is being called.
NoConv ==
    /\ ibits = 8 /\ obits = 8 /\ in_fp = 0 /\ out_fp = 0
    /\ type = "U32FP_RADIX_TYPE_DB_POWER" /\ back = {}

\* No EWMA function is being called.
NoEwma ==
    /\ width = 8 /\ new = {} /\ old = {} /\ bottom_limit = {} /\ damper = {}

\* A caller holds either a value to encode or a codeword to decode.
Init ==
    /\ \E hl \in HBITS_LBITS : hbits = hl[1] /\ lbits = hl[2]
    /\ fp \in MantSet(hbits, lbits)
    /\ frac = 0
    /\ \/ pc = "value" /\ val \in Samples(hbits) /\ code = {}
       \/ pc = "codeword" /\ val = {} /\ code \in CodeSamples(hbits, lbits)
    /\ out = {}
    /\ a = {} /\ b = {} /\ log_a = {} /\ log_b = {}
    /\ log_product = {} /\ product_recovered = {}
    /\ NoConv
    /\ NoEwma

\* A call returned: label names the kind of function, f the fractional bits
\* of the fixed-point side, c the codeword and o the decoded value.
Returned(label, f, c, o) ==
    /\ pc' = label
    /\ frac' = f
    /\ code' = c
    /\ out' = o
    /\ UNCHANGED <<hbits, lbits, fp, val>>
    /\ UNCHANGED pair_vars
    /\ UNCHANGED conv_vars
    /\ UNCHANGED ewma_vars

\* code = u<H>_to_loc<L>fp(val, fp)
Call_u_to_loc_fp ==
    /\ pc = "value"
    /\ Returned("loc", 0, u_to_loc_fp(val, fp, hbits, lbits), out)

\* code = u<H>_to_loc<L>fpmax(val)
Call_u_to_loc_fpmax ==
    /\ pc = "value" /\ fp = intfp_loc_fpmax(hbits, lbits)
    /\ Returned("loc", 0, u_to_loc_fpmax(val, hbits, lbits), out)

\* out = loc<L>fp_to_u<H>(code, fp)
Call_loc_fp_to_u ==
    /\ pc \in {"loc", "codeword"}
    /\ \E ulong \in ULONG_BITS :
         Returned(IF pc = "loc" THEN "loc_u" ELSE "codeword_loc_u", 0,
                  code, loc_fp_to_u(code, fp, hbits, lbits, ulong))

\* out = loc<L>fpmax_to_u<H>(code)
Call_loc_fpmax_to_u ==
    /\ pc \in {"loc", "codeword"} /\ fp = intfp_loc_fpmax(hbits, lbits)
    /\ \E ulong \in ULONG_BITS :
         Returned(IF pc = "loc" THEN "loc_u" ELSE "codeword_loc_u", 0,
                  code, loc_fpmax_to_u(code, hbits, lbits, ulong))

\* code = u<H>fp_to_log<L>fp(val, ifp, fp)
Call_ufp_to_log_fp ==
    /\ pc = "value" /\ LogBudget(fp, hbits, lbits)
    /\ \E ifp \in FracSet(hbits) :
         Returned("log", ifp, ufp_to_log_fp(val, ifp, fp, hbits, lbits), out)

\* code = u<H>fp_to_log<L>fpmax(val, ifp)
Call_ufp_to_log_fpmax ==
    /\ pc = "value" /\ fp = intfp_log_fpmax(hbits, lbits)
    /\ \E ifp \in FracSet(hbits) :
         Returned("log", ifp, ufp_to_log_fpmax(val, ifp, hbits, lbits), out)

\* code = u<H>_to_log<L>fp(val, fp)
Call_u_to_log_fp ==
    /\ pc = "value" /\ LogBudget(fp, hbits, lbits)
    /\ Returned("log", 0, u_to_log_fp(val, fp, hbits, lbits), out)

\* code = u<H>_to_log<L>fpmax(val)
Call_u_to_log_fpmax ==
    /\ pc = "value" /\ fp = intfp_log_fpmax(hbits, lbits)
    /\ Returned("log", 0, u_to_log_fpmax(val, hbits, lbits), out)

\* The output fractional bits a decoder is called with: those of the encoded
\* value on a round trip, any for a codeword that was handed in.
OutFracs == IF pc = "log" THEN {frac} ELSE FracSet(hbits)

\* out = log<L>fp_to_u<H>fp(code, fp, ofp)
Call_log_fp_to_ufp ==
    /\ pc \in {"log", "codeword"} /\ LogBudget(fp, hbits, lbits)
    /\ \E ofp \in OutFracs, ulong \in ULONG_BITS :
         Returned(IF pc = "log" THEN "log_u" ELSE "codeword_log_u", ofp,
                  code, log_fp_to_ufp(code, fp, ofp, hbits, lbits, ulong))

\* out = log<L>fpmax_to_u<H>fp(code, ofp)
Call_log_fpmax_to_ufp ==
    /\ pc \in {"log", "codeword"} /\ fp = intfp_log_fpmax(hbits, lbits)
    /\ \E ofp \in OutFracs, ulong \in ULONG_BITS :
         Returned(IF pc = "log" THEN "log_u" ELSE "codeword_log_u", ofp,
                  code, log_fpmax_to_ufp(code, ofp, hbits, lbits, ulong))

\* out = log<L>fp_to_u<H>(code, fp)
Call_log_fp_to_u ==
    /\ pc \in {"log", "codeword"} /\ frac = 0 /\ LogBudget(fp, hbits, lbits)
    /\ \E ulong \in ULONG_BITS :
         Returned(IF pc = "log" THEN "log_u" ELSE "codeword_log_u", 0,
                  code, log_fp_to_u(code, fp, hbits, lbits, ulong))

\* out = log<L>fpmax_to_u<H>(code)
Call_log_fpmax_to_u ==
    /\ pc \in {"log", "codeword"} /\ frac = 0
    /\ fp = intfp_log_fpmax(hbits, lbits)
    /\ \E ulong \in ULONG_BITS :
         Returned(IF pc = "log" THEN "log_u" ELSE "codeword_log_u", 0,
                  code, log_fpmax_to_u(code, hbits, lbits, ulong))

Next ==
    \/ Call_u_to_loc_fp
    \/ Call_u_to_loc_fpmax
    \/ Call_loc_fp_to_u
    \/ Call_loc_fpmax_to_u
    \/ Call_ufp_to_log_fp
    \/ Call_ufp_to_log_fpmax
    \/ Call_u_to_log_fp
    \/ Call_u_to_log_fpmax
    \/ Call_log_fp_to_ufp
    \/ Call_log_fpmax_to_ufp
    \/ Call_log_fp_to_u
    \/ Call_log_fpmax_to_u

Spec == Init /\ [][Next]_vars

(* ------------------------------------------------------------------ *)
(* Multiplication via logarithmic addition (README "Basic Usage",     *)
(* test_log_arithmetic): u64 operands, s32 'log' codewords.           *)
(* ------------------------------------------------------------------ *)

\* The exponents of the second operand: within MulEdge of 0, of 31 and of 63.
MulEdge == 1

EdgeWords ==
    { w \in PatternWords(64) :
        LET k == MaxOf(w)
        IN  \/ k <= MulEdge
            \/ (k >= 31 - MulEdge /\ k <= 31 + MulEdge)
            \/ k >= 63 - MulEdge }

MulInit ==
    /\ hbits = 64 /\ lbits = 32 /\ fp = intfp_log_fpmax(64, 32) /\ frac = 0
    /\ pc = "mul"
    /\ a \in Samples(64)
    /\ b \in EdgeWords \cup Literals(64)
    /\ log_a = {} /\ log_b = {} /\ log_product = {} /\ product_recovered = {}
    /\ val = {} /\ code = {} /\ out = {}
    /\ NoConv
    /\ NoEwma

\* s32 log_a = u64_to_log32fpmax(a);
Mul_log_a ==
    /\ pc = "mul"
    /\ log_a' = u_to_log_fpmax(a, hbits, lbits)
    /\ pc' = "mul_a"
    /\ UNCHANGED <<hbits, lbits, fp, frac, a, b, log_b, log_product,
                   product_recovered>>
    /\ UNCHANGED call_vars
    /\ UNCHANGED conv_vars
    /\ UNCHANGED ewma_vars

\* s32 log_b = u64_to_log32fpmax(b);
Mul_log_b ==
    /\ pc = "mul_a"
    /\ log_b' = u_to_log_fpmax(b, hbits, lbits)
    /\ pc' = "mul_b"
    /\ UNCHANGED <<hbits, lbits, fp, frac, a, b, log_a, log_product,
                   product_recovered>>
    /\ UNCHANGED call_vars
    /\ UNCHANGED conv_vars
    /\ UNCHANGED ewma_vars

\* x + y does not fit the signed type of the given width.
SignedOverflow(x, y, bits) ==
    /\ IsNeg(x, bits) = IsNeg(y, bits)
    /\ IsNeg(AddW(x, y, bits), bits) # IsNeg(x, bits)

\* s32 log_product = log_a + log_b;  A sum that does not fit s32 is undefined
\* behaviour: the build either wraps it around or traps.
Mul_add ==
    /\ pc = "mul_b"
    /\ \/ /\ pc' = "mul_sum"
          /\ log_product' = AddW(log_a, log_b, lbits)
       \/ /\ SignedOverflow(log_a, log_b, lbits)
          /\ pc' = "mul_trap"
          /\ log_product' = log_product
    /\ UNCHANGED <<hbits, lbits, fp, frac, a, b, log_a, log_b,
                   product_recovered>>
    /\ UNCHANGED call_vars
    /\ UNCHANGED conv_vars
    /\ UNCHANGED ewma_vars

\* u64 product_recovered = log32fpmax_to_u64(log_product);
Mul_recover ==
    /\ pc = "mul_sum"
    /\ \E ulong \in ULONG_BITS :
         product_recovered' = log_fpmax_to_u(log_product, hbits, lbits, ulong)
    /\ pc' = "mul_done"
    /\ UNCHANGED <<hbits, lbits, fp, frac, a, b, log_a, log_b, log_product>>
    /\ UNCHANGED call_vars
    /\ UNCHANGED conv_vars
    /\ UNCHANGED ewma_vars

MulNext == Mul_log_a \/ Mul_log_b \/ Mul_add \/ Mul_recover

SpecMul == MulInit /\ [][MulNext]_vars

(* ------------------------------------------------------------------ *)
(* Two values encoded with the same function and budget               *)
(* ------------------------------------------------------------------ *)

\* The values compared with a: the next integer, the value one mantissa step
\* up, the next power of two and the largest value.
Above(v, m, hb) ==
    LET k == IF v = {} THEN 0 ELSE MaxOf(v)
    IN  { w \in { AddW(v, {0}, hb),
                  AddW(v, {IF k > m THEN k - m ELSE 0}, hb),
                  {k + 1} \cap Bits(hb),
                  Bits(hb) } : LtU(v, w) }

PairInit ==
    /\ \E hl \in HBITS_LBITS : hbits = hl[1] /\ lbits = hl[2]
    /\ fp \in MantSet(hbits, lbits)
    /\ frac = 0
    /\ pc = "pair"
    /\ a \in Samples(hbits)
    /\ b \in Above(a, fp, hbits)
    /\ log_a = {} /\ log_b = {} /\ log_product = {} /\ product_recovered = {}
    /\ val = {} /\ code = {} /\ out = {}
    /\ NoConv
    /\ NoEwma

PairEncoded(label, ca, cb) ==
    /\ pc' = label
    /\ log_a' = ca
    /\ log_b' = cb
    /\ UNCHANGED <<hbits, lbits, fp, frac, a, b, log_product,
                   product_recovered>>
    /\ UNCHANGED call_vars
    /\ UNCHANGED conv_vars
    /\ UNCHANGED ewma_vars

\* u<H>_to_loc<L>fp(a, fp) and u<H>_to_loc<L>fp(b, fp)
Pair_u_to_loc_fp ==
    /\ pc = "pair"
    /\ PairEncoded("pair_loc", u_to_loc_fp(a, fp, hbits, lbits),
                   u_to_loc_fp(b, fp, hbits, lbits))

\* u<H>_to_log<L>fp(a, fp) and u<H>_to_log<L>fp(b, fp)
Pair_u_to_log_fp ==
    /\ pc = "pair" /\ LogBudget(fp, hbits, lbits)
    /\ PairEncoded("pair_log", u_to_log_fp(a, fp, hbits, lbits),
                   u_to_log_fp(b, fp, hbits, lbits))

PairNext == Pair_u_to_loc_fp \/ Pair_u_to_log_fp

SpecPair == PairInit /\ [][PairNext]_vars

(* ------------------------------------------------------------------ *)
(* Codeword-to-codeword calls                                         *)
(* ------------------------------------------------------------------ *)

\* The widths INTFP_DECL_IBITS_OBITS is instantiated with (every pair), and
\* those of INTFP_DECL_BITS_UP_TO_32.
IBITS_OBITS == {8, 16, 32, 64}
BITS_UP_TO_32 == {8, 16, 32}

\* s32 test_log_val = u64_to_log32fp(12345, LOG_FRACT_BITS), the value the
\* demo rescales there and back.
test_log_val ==
    ufp_to_log_fp(NatWord(12345, 64), 0, intfp_log_fpmax(64, 32), 64, 32)

\* Input codewords of a transcoder: all of them for 8 bits, else sampled
\* words and their two's complements; for 32 bits also the codeword whose
\* rescaled magnitude is 2^31, and test_log_val.
ConvSamples(bits) ==
    IF bits = 8 THEN SUBSET Bits(8)
    ELSE LET S == { {} } \cup PatternWords(bits)
         IN  (S \cup { NegW(w, bits) : w \in S })
               \cup (IF bits = 32
                     THEN { NegW(NatWord(713378626, 32), 32), test_log_val }
                     ELSE {})

\* Mantissa budgets handed to a transcoder: 0..LowF and bits - 3, the widest
\* a codec of this width takes.
ConvFracs(bits) == { f \in 0 .. (bits - 1) : f <= LowF \/ f = bits - 3 }

ConvInit ==
    /\ ibits \in IBITS_OBITS /\ obits \in IBITS_OBITS
    /\ in_fp = 0 /\ out_fp = 0
    /\ type = "U32FP_RADIX_TYPE_DB_POWER" /\ back = {}
    /\ pc = "conv"
    /\ code \in ConvSamples(ibits)
    /\ out = {} /\ val = {}
    /\ hbits = 8 /\ lbits = 8 /\ fp = 1 /\ frac = 0
    /\ a = {} /\ b = {} /\ log_a = {} /\ log_b = {}
    /\ log_product = {} /\ product_recovered = {}
    /\ NoEwma

\* A transcoder returned one of the results in outs.
Transcoded(label, ifp, ofp, outs) ==
    /\ pc' = label
    /\ in_fp' = ifp
    /\ out_fp' = ofp
    /\ out' \in outs
    /\ UNCHANGED <<hbits, lbits, fp, frac, val, code, ibits, obits, type,
                   back>>
    /\ UNCHANGED pair_vars
    /\ UNCHANGED ewma_vars

\* out = loc<I>fp_to_loc<O>fp(code, ifp, ofp)
Call_loc_fp_to_loc_fp ==
    /\ pc = "conv"
    /\ \E ifp \in ConvFracs(ibits), ofp \in ConvFracs(obits) :
         Transcoded("loc_loc", ifp, ofp,
                    loc_fp_to_loc_fp(code, ifp, ofp, ibits, obits))

\* out = loc<I>fpmax_to_loc<O>fpmax(code)
Call_loc_fpmax_to_loc_fpmax ==
    /\ pc = "conv"
    /\ Transcoded("loc_loc", ibits - intfp_fls32(ibits - 1),
                  obits - intfp_fls32(ibits - 1),
                  loc_fpmax_to_loc_fpmax(code, ibits, obits))

\* out = log<I>fp_to_log<O>fp(code, ifp, ofp)
Call_log_fp_to_log_fp ==
    /\ pc = "conv"
    /\ \E ifp \in ConvFracs(ibits), ofp \in ConvFracs(obits) :
         Transcoded("log_log", ifp, ofp,
                    log_fp_to_log_fp(code, ifp, ofp, ibits, obits))

\* out = log<I>fpmax_to_log<O>fpmax(code)
Call_log_fpmax_to_log_fpmax ==
    /\ pc = "conv"
    /\ Transcoded("log_log", (ibits - 1) - intfp_fls32(ibits - 1),
                  (obits - 1) - intfp_fls32(ibits - 1),
                  log_fpmax_to_log_fpmax(code, ibits, obits))

\* out = loc<I>fp_to_log<O>fp(code, ifp, ofp)
Call_loc_fp_to_log_fp ==
    /\ pc = "conv"
    /\ \E ifp \in ConvFracs(ibits), ofp \in ConvFracs(obits) :
         Transcoded("loc_log", ifp, ofp,
                    loc_fp_to_log_fp(code, ifp, ofp, ibits, obits))

\* out = loc<I>fpmax_to_log<O>fpmax(code)
Call_loc_fpmax_to_log_fpmax ==
    /\ pc = "conv"
    /\ Transcoded("loc_log", ibits - intfp_fls32(ibits - 1),
                  (obits - 1) - intfp_fls32(ibits - 1),
                  loc_fpmax_to_log_fpmax(code, ibits, obits))

\* out = log<I>fp_to_loc<O>fp(code, ifp, ofp)
Call_log_fp_to_loc_fp ==
    /\ pc = "conv"
    /\ \E ifp \in ConvFracs(ibits), ofp \in ConvFracs(obits) :
         Transcoded("log_loc", ifp, ofp,
                    log_fp_to_loc_fp(code, ifp, ofp, ibits, obits))

\* out = log<I>fpmax_to_loc<O>fpmax(code)
Call_log_fpmax_to_loc_fpmax ==
    /\ pc = "conv"
    /\ Transcoded("log_loc", (ibits - 1) - intfp_fls32(ibits - 1),
                  obits - intfp_fls32(ibits - 1),
                  log_fpmax_to_loc_fpmax(code, ibits, obits))

\* A rescale returned o, or (label "radix_trap") trapped.
Rescaled(label, t, o) ==
    /\ pc' = label
    /\ type' = t
    /\ out' = o
    /\ UNCHANGED <<hbits, lbits, fp, frac, val, code, ibits, obits, in_fp,
                   out_fp, back>>
    /\ UNCHANGED pair_vars
    /\ UNCHANGED ewma_vars

\* out = rescale_log<bits>fp_to_radix(code, type), bits = ibits.  Negating
\* the most negative s32 is undefined: the build wraps around or traps.
Call_rescale_log_fp_to_radix ==
    /\ pc = "conv" /\ ibits \in BITS_UP_TO_32 /\ obits = ibits
    /\ \E t \in DOMAIN u32fp_radix_tbl :
         \/ Rescaled("to_radix", t, rescale_log_fp_to_radix(code, ibits, t))
         \/ /\ NegatesMin(code, ibits, u32fp_radix_tbl[t].to,
                          u32fp_radix_tbl[t].to_shr)
            /\ Rescaled("radix_trap", t, out)

\* out = rescale_log<bits>fp_from_radix(code, type), bits = ibits.  Both
\* 'from' constants are below 2^32 and shifted by 32, so temp stays below
\* the magnitude of v and its negation is defined.
Call_rescale_log_fp_from_radix ==
    /\ pc = "conv" /\ ibits \in BITS_UP_TO_32 /\ obits = ibits
    /\ \E t \in DOMAIN u32fp_radix_tbl :
         Rescaled("from_radix", t, rescale_log_fp_from_radix(code, ibits, t))

\* back = rescale_log<bits>fp_from_radix(out, type), of the out a call of
\* rescale_log<bits>fp_to_radix returned: the round trip of the demo.
Call_rescale_round_trip ==
    /\ pc = "to_radix"
    /\ pc' = "round_trip"
    /\ back' = rescale_log_fp_from_radix(out, ibits, type)
    /\ UNCHANGED <<hbits, lbits, fp, frac, val, code, out, ibits, obits,
                   in_fp, out_fp, type>>
    /\ UNCHANGED pair_vars
    /\ UNCHANGED ewma_vars

ConvNext ==
    \/ Call_loc_fp_to_loc_fp
    \/ Call_loc_fpmax_to_loc_fpmax
    \/ Call_log_fp_to_log_fp
    \/ Call_log_fpmax_to_log_fpmax
    \/ Call_loc_fp_to_log_fp
    \/ Call_loc_fpmax_to_log_fpmax
    \/ Call_log_fp_to_loc_fp
    \/ Call_log_fpmax_to_loc_fpmax
    \/ Call_rescale_log_fp_to_radix
    \/ Call_rescale_log_fp_from_radix
    \/ Call_rescale_round_trip

SpecConv == ConvInit /\ [][ConvNext]_vars

(* ------------------------------------------------------------------ *)
(* EWMA calls                                                         *)
(* ------------------------------------------------------------------ *)

\* Values within EwmaEdge of the most negative value, of 0 and of the most
\* positive value are enumerated.
EwmaEdge == 1
\* Dampers 0..DamperTop are enumerated (with the widths and the largest).
DamperTop == 4

\* The widths INTFP_DECL_BITS is instantiated with.
BITS == {8, 16, 32, 64}

\* Signed values at the edges of the range and around 0.
EdgeValues(bits) ==
    UNION { { AddW(intfp_signed_min(bits), NatWord(k, bits), bits),
              IntWord(0 - k, bits), NatWord(k, bits),
              SubW(intfp_signed_max(bits), NatWord(k, bits), bits) }
          : k \in 0 .. EwmaEdge }

\* The values of the demo and the test: 100 and 200, plain and with 8
\* fractional bits.
EwmaLiterals(bits) ==
    { w \in { NatWord(n, 32) : n \in {100, 200, 25600, 51200} } :
        w \subseteq Bits(bits - 1) }

\* Dampers: small ones, those around the width of the type and of int, and
\* the largest u8 and u##bits.
Dampers(bits) ==
    { NatWord(k, 8) : k \in (0 .. DamperTop) \cup {bits - 1, bits, 40, 255} }
        \cup { Bits(bits) }

EwmaInit ==
    /\ width \in BITS
    /\ new \in EdgeValues(width) \cup EwmaLiterals(width)
    /\ old \in EdgeValues(width) \cup EwmaLiterals(width)
    /\ bottom_limit \in EdgeValues(width)
    /\ damper \in Dampers(width)
    /\ pc = "ewma"
    /\ out = {} /\ val = {} /\ code = {}
    /\ hbits = 8 /\ lbits = 8 /\ fp = 1 /\ frac = 0
    /\ a = {} /\ b = {} /\ log_a = {} /\ log_b = {}
    /\ log_product = {} /\ product_recovered = {}
    /\ NoConv

\* An EWMA call returned o, or (labels "ewma_div_trap", "ewma_shr_trap")
\* trapped.
Smoothed(label, o) ==
    /\ pc' = label
    /\ out' = o
    /\ UNCHANGED <<hbits, lbits, fp, frac, val, code>>
    /\ UNCHANGED pair_vars
    /\ UNCHANGED conv_vars
    /\ UNCHANGED ewma_vars

\* out = ewma_s<bits>fp_div(new, old, bottom_limit, damper).  A difference
\* that overflows is undefined: the build wraps around or traps.
Call_ewma_s_fp_div ==
    /\ pc = "ewma"
    /\ \/ Smoothed("ewma_div",
                   ewma_s_fp_div(new, old, bottom_limit, damper, width))
       \/ /\ DiffOverflows(new, old, bottom_limit, damper, width)
          /\ Smoothed("ewma_div_trap", out)

\* out = ewma_s<bits>fp_shr(new, old, bottom_limit, damper), damper a u8.
Call_ewma_s_fp_shr ==
    /\ pc = "ewma" /\ damper \subseteq Bits(8)
    /\ \/ \E o \in ewma_s_fp_shr(new, old, bottom_limit, damper, width) :
            Smoothed("ewma_shr", o)
       \/ /\ DiffOverflows(new, old, bottom_limit, damper, width)
          /\ Smoothed("ewma_shr_trap", out)

EwmaNext == Call_ewma_s_fp_div \/ Call_ewma_s_fp_shr

SpecEwma == EwmaInit /\ [][EwmaNext]_vars

(* ------------------------------------------------------------------ *)
(* EWMA iteration: old <- ewma(new, old, bottom_limit, damper)        *)
(* ------------------------------------------------------------------ *)

\* Dampers 2..IterDamperTop are iterated with.
IterDamperTop == 3

\* Targets and starting averages: the extremes of the type, the values
\* around 0, and 100.
IterValues(bits) ==
    { intfp_signed_min(bits), IntWord(0 - 1, bits), {}, {0},
      NatWord(100, bits), intfp_signed_max(bits) }

\* Dampers of an iteration: 2..IterDamperTop, and for the shift variant also
\* the promoted width of the type, the smallest count C leaves undefined.
IterDampers(label, bits) ==
    { NatWord(k, 8) : k \in 2 .. IterDamperTop }
        \cup (IF label = "iter_shr" THEN { NatWord(Promoted(bits), 8) } ELSE {})

\* A caller is about to feed a fixed new into one of the two variants again
\* and again, keeping the result as the next old.
IterInit ==
    /\ width \in BITS
    /\ pc \in {"iter_div", "iter_shr"}
    /\ new \in IterValues(width)
    /\ old \in IterValues(width)
    /\ bottom_limit \in { intfp_signed_min(width), {} }
    /\ damper \in IterDampers(pc, width)
    /\ out = {} /\ val = {} /\ code = {}
    /\ hbits = 8 /\ lbits = 8 /\ fp = 1 /\ frac = 0
    /\ a = {} /\ b = {} /\ log_a = {} /\ log_b = {}
    /\ log_product = {} /\ product_recovered = {}
    /\ NoConv

\* One more call: the result o becomes the next old, or (labels
\* "iter_div_trap", "iter_shr_trap") the call trapped.
Iterated(label, o) ==
    /\ pc' = label
    /\ old' = o
    /\ UNCHANGED <<hbits, lbits, fp, frac, val, code, out>>
    /\ UNCHANGED pair_vars
    /\ UNCHANGED conv_vars
    /\ UNCHANGED <<width, new, bottom_limit, damper>>

\* old = ewma_s<bits>fp_div(new, old, bottom_limit, damper).  A difference
\* that overflows is undefined: the build wraps around or traps.
Iterate_ewma_s_fp_div ==
    /\ pc = "iter_div"
    /\ \/ Iterated("iter_div",
                   ewma_s_fp_div(new, old, bottom_limit, damper, width))
       \/ /\ DiffOverflows(new, old, bottom_limit, damper, width)
          /\ Iterated("iter_div_trap", old)

\* old = ewma_s<bits>fp_shr(new, old, bottom_limit, damper)
Iterate_ewma_s_fp_shr ==
    /\ pc = "iter_shr"
    /\ \/ \E o \in ewma_s_fp_shr(new, old, bottom_limit, damper, width) :
            Iterated("iter_shr", o)
       \/ /\ DiffOverflows(new, old, bottom_limit, damper, width)
          /\ Iterated("iter_shr_trap", old)

IterNext == Iterate_ewma_s_fp_div \/ Iterate_ewma_s_fp_shr

SpecIter == IterInit /\ [][IterNext]_vars

(* ------------------------------------------------------------------ *)
(* Integer <-> fixed-point calls                                      *)
(* ------------------------------------------------------------------ *)

\* Fractional bit counts handed to a conversion (a u8): 0..LowF + 1, the
\* counts around the widths of the types and of the promoted types, and the
\* largest.
LinFracs(hb) ==
    { f \in 0 .. 255 :
        f <= LowF + 1 \/ f \in {7, hb - 1, hb, 31, 32, 63, 64, 255} }

\* Input words of a width: all of them for 8 bits, else sampled words and
\* their two's complements.
LinSamples(bits) ==
    IF bits = 8 THEN SUBSET Bits(8)
    ELSE LET S == { {} } \cup PatternWords(bits)
         IN  S \cup { NegW(w, bits) : w \in S }

LinInit ==
    /\ \E hl \in HBITS_LBITS : hbits = hl[1] /\ lbits = hl[2]
    /\ fp \in LinFracs(hbits)
    /\ val \in LinSamples(hbits) \cup LinSamples(lbits)
    /\ pc = "lin"
    /\ frac = 0 /\ code = {} /\ out = {}
    /\ a = {} /\ b = {} /\ log_a = {} /\ log_b = {}
    /\ log_product = {} /\ product_recovered = {}
    /\ NoConv
    /\ NoEwma

\* A conversion returned o; bk is the value a round trip ended with.
Shifted_fp(label, o, bk) ==
    /\ pc' = label
    /\ out' = o
    /\ back' = bk
    /\ UNCHANGED <<hbits, lbits, fp, frac, val, code, ibits, obits, in_fp,
                   out_fp, type>>
    /\ UNCHANGED pair_vars
    /\ UNCHANGED ewma_vars

\* out = u<L>_to_u<H>fp(val, fp), val a u<L>
Call_u_to_ufp ==
    /\ pc = "lin" /\ val \subseteq Bits(lbits)
    /\ \E o \in u_to_ufp(val, fp, hbits, lbits) : Shifted_fp("u_to_ufp", o, back)

\* out = u<H>fp_to_u<L>(val, fp), val a u<H>
Call_ufp_to_u ==
    /\ pc = "lin"
    /\ \E o \in ufp_to_u(val, fp, hbits, lbits) : Shifted_fp("ufp_to_u", o, back)

\* out = s<L>_to_s<H>fp(val, fp), val an s<L>
Call_s_to_sfp ==
    /\ pc = "lin" /\ val \subseteq Bits(lbits)
    /\ \E o \in s_to_sfp(val, fp, hbits, lbits) : Shifted_fp("s_to_sfp", o, back)

\* out = s<H>fp_to_s<L>(val, fp), val an s<H>
Call_sfp_to_s ==
    /\ pc = "lin"
    /\ \E o \in sfp_to_s(val, fp, hbits, lbits) : Shifted_fp("sfp_to_s", o, back)

\* back = u<H>fp_to_u<L>(out, fp) of the out that u<L>_to_u<H>fp returned
Call_ufp_to_u_back ==
    /\ pc = "u_to_ufp"
    /\ \E o \in ufp_to_u(out, fp, hbits, lbits) :
         Shifted_fp("u_round_trip", out, o)

\* back = s<H>fp_to_s<L>(out, fp) of the out that s<L>_to_s<H>fp returned
Call_sfp_to_s_back ==
    /\ pc = "s_to_sfp"
    /\ \E o \in sfp_to_s(out, fp, hbits, lbits) :
         Shifted_fp("s_round_trip", out, o)

LinNext ==
    \/ Call_u_to_ufp
    \/ Call_ufp_to_u
    \/ Call_s_to_sfp
    \/ Call_sfp_to_s
    \/ Call_ufp_to_u_back
    \/ Call_sfp_to_s_back

SpecLin == LinInit /\ [][LinNext]_vars

(* ------------------------------------------------------------------ *)
(* Calls of the max-precision budget functions                        *)
(* ------------------------------------------------------------------ *)

\* Bit widths handed to intfp_loc_fpmax and intfp_log_fpmax: from 2 (below
\* it intfp_fls32 counts the leading zeros of 0) to the widest type.
FpmaxBits == 2 .. 64

FpmaxInit ==
    /\ hbits \in FpmaxBits /\ lbits \in FpmaxBits
    /\ fp = 0 /\ pc = "fpmax"
    /\ frac = 0 /\ val = {} /\ code = {} /\ out = {}
    /\ a = {} /\ b = {} /\ log_a = {} /\ log_b = {}
    /\ log_product = {} /\ product_recovered = {}
    /\ NoConv
    /\ NoEwma

\* A budget function returned f.
Budgeted(label, f) ==
    /\ pc' = label
    /\ fp' = f
    /\ UNCHANGED <<hbits, lbits, frac, val, code, out>>
    /\ UNCHANGED pair_vars
    /\ UNCHANGED conv_vars
    /\ UNCHANGED ewma_vars

\* fp = intfp_loc_fpmax(hbits, lbits)
Call_intfp_loc_fpmax ==
    pc = "fpmax" /\ Budgeted("loc_fpmax", intfp_loc_fpmax(hbits, lbits))

\* fp = intfp_log_fpmax(hbits, lbits)
Call_intfp_log_fpmax ==
    pc = "fpmax" /\ Budgeted("log_fpmax", intfp_log_fpmax(hbits, lbits))

FpmaxNext ==
    \/ Call_intfp_loc_fpmax
    \/ Call_intfp_log_fpmax

SpecFpmax == FpmaxInit /\ [][FpmaxNext]_vars

(* ------------------------------------------------------------------ *)
(* Corrected codec calls                                              *)
(* ------------------------------------------------------------------ *)

\* The instantiations the tests call the corrected codec with.
CORR_HBITS_LBITS == { <<64, 32>>, <<32, 32>> }

CorrInit ==
    /\ \E hl \in CORR_HBITS_LBITS : hbits = hl[1] /\ lbits = hl[2]
    /\ fp = intfp_log_fpmax(hbits, lbits)
    /\ frac = 0
    /\ \/ pc = "value" /\ val \in Samples(hbits) /\ code = {}
       \/ pc = "codeword" /\ val = {} /\ code \in CodeSamples(hbits, lbits)
    /\ out = {}
    /\ a = {} /\ b = {} /\ log_a = {} /\ log_b = {}
    /\ log_product = {} /\ product_recovered = {}
    /\ NoConv
    /\ NoEwma

\* code = u<H>_to_log<L>fpmax_corr(val)
Call_u_to_log_fpmax_corr ==
    /\ pc = "value"
    /\ Returned("log_corr", 0, u_to_log_fpmax_corr(val, hbits, lbits), out)

\* out = log<L>fpmax_to_u<H>_corr(code)
Call_log_fpmax_to_u_corr ==
    /\ pc \in {"log_corr", "codeword"}
    /\ \E ulong \in ULONG_BITS :
         Returned(IF pc = "log_corr" THEN "log_u_corr"
                  ELSE "codeword_log_u_corr", 0,
                  code, log_fpmax_to_u_corr(code, hbits, lbits, ulong))

CorrNext ==
    \/ Call_u_to_log_fpmax_corr
    \/ Call_log_fpmax_to_u_corr

SpecCorr == CorrInit /\ [][CorrNext]_vars

(* ------------------------------------------------------------------ *)
(* Two codewords decoded with the same function and budget            *)
(* ------------------------------------------------------------------ *)

\* The codewords compared with the lb-bit 'log' codeword c: the next one, the
\* one a mantissa's worth up, 0 and the largest, where they are above c in
\* signed order.
AboveCode(c, m, lb) ==
    { w \in { AddW(c, {0}, lb), AddW(c, {m}, lb), {}, intfp_signed_max(lb) } :
        LtS(c, w, lb) }

OrderInit ==
    /\ \E hl \in HBITS_LBITS : hbits = hl[1] /\ lbits = hl[2]
    /\ fp \in MantSet(hbits, lbits) /\ LogBudget(fp, hbits, lbits)
    /\ frac \in FracSet(hbits)
    /\ pc = "pair_codewords"
    /\ log_a \in CodeSamples(hbits, lbits)
    /\ log_b \in AboveCode(log_a, fp, lbits)
    /\ a = {} /\ b = {} /\ log_product = {} /\ product_recovered = {}
    /\ val = {} /\ code = {} /\ out = {}
    /\ NoConv
    /\ NoEwma

\* a = log<L>fp_to_u<H>fp(log_a, fp, frac) and
\* b = log<L>fp_to_u<H>fp(log_b, fp, frac)
Pair_log_fp_to_ufp ==
    /\ pc = "pair_codewords"
    /\ pc' = "pair_decoded"
    /\ \E ulong \in ULONG_BITS :
         /\ a' = log_fp_to_ufp(log_a, fp, frac, hbits, lbits, ulong)
         /\ b' = log_fp_to_ufp(log_b, fp, frac, hbits, lbits, ulong)
    /\ UNCHANGED <<hbits, lbits, fp, frac, log_a, log_b, log_product,
                   product_recovered>>
    /\ UNCHANGED call_vars
    /\ UNCHANGED conv_vars
    /\ UNCHANGED ewma_vars

OrderNext == Pair_log_fp_to_ufp

SpecOrder == OrderInit /\ [][OrderNext]_vars

(* ------------------------------------------------------------------ *)
(* Arithmetic the properties are stated with                          *)
(* ------------------------------------------------------------------ *)

\* v is an exact power of two.
IsPow2(v) == Cardinality(v) = 1

\* v with every bit below its n most significant bits cleared (v nonzero).
KeepTop(v, n) == LET k == MaxOf(v) IN {i \in v : i > k - n}

\* x * n for a word x below 2^65 and a natural number n < 2^31, exactly.
MulNat(x, n) == MulW(x, NatWord(n, 32))

\* |x - y| of two unsigned words.
AbsDiff(x, y) == IF LtU(x, y) THEN SubW(y, x, 128) ELSE SubW(x, y, 128)

(* ------------------------------------------------------------------ *)
(* Properties of the codecs                                           *)
(* ------------------------------------------------------------------ *)

\* C1: with the max-precision mantissa budget, decoding the 'log' encoding
\* and decoding the 'loc' encoding of 2^k both return exactly 2^k, for every
\* instantiated (hbits, lbits) and every k in 0..hbits-1.
C1_Pow2RoundTrip ==
    /\ (pc = "loc_u" /\ fp = intfp_loc_fpmax(hbits, lbits) /\ IsPow2(val))
         => out = val
    /\ (pc = "log_u" /\ fp = intfp_log_fpmax(hbits, lbits) /\ frac = 0
           /\ IsPow2(val))
         => out = val

\* 2^(hbits-1), the largest power of two, has come back from a max-precision
\* 'log' round trip into the narrowest codeword.
C1_Witness ==
    /\ pc = "log_u" /\ frac = 0
    /\ hbits = 64 /\ lbits = 8 /\ fp = intfp_log_fpmax(hbits, lbits)
    /\ val = {63} /\ out = {63}

\* C2: the 'loc' encoder returns 1 exactly for v = 0 and 0 exactly for v = 1
\* (no v >= 2 encodes to 0 or 1); the 'loc' decoder returns 0 for the
\* codeword 1 and 1 for the codeword 0.  The mantissa budget ranges over the
\* valid budgets 1 .. lbits - fls(hbits - 1).
C2_LocSentinelSwap ==
    /\ pc = "loc" =>
         /\ (code = {0}) <=> (val = {})
         /\ (code = {}) <=> (val = {0})
    /\ (pc \in {"loc_u", "codeword_loc_u"} /\ code = {0}) => out = {}
    /\ (pc \in {"loc_u", "codeword_loc_u"} /\ code = {}) => out = {0}

\* The codeword 0 was handed to the 'loc' decoder, which returned 1.
C2_Witness ==
    pc = "codeword_loc_u" /\ code = {} /\ out = {0} /\ hbits = 32 /\ fp > 1

\* C3: the 'log' encoder maps v = 0 to the most negative lbits-bit value for
\* every input fractional count and mantissa budget, and the 'log' decoder
\* maps that sentinel to 0 for every output fractional count.
C3_LogZeroSentinel ==
    /\ (pc = "log" /\ val = {}) => code = {lbits - 1}
    /\ (pc \in {"log_u", "codeword_log_u"} /\ code = {lbits - 1}) => out = {}

\* A zero fixed-point value with fractional bits went through the encoder and
\* the decoder.
C3_Witness ==
    pc = "log_u" /\ val = {} /\ frac > 0 /\ code = {lbits - 1} /\ out = {}

\* The integer round trip of a nonzero value: out is val with every bit below
\* its fp+1 most significant bits cleared, 0 < out <= val, and out = val when
\* val < 2^(fp+1) or val is a power of two.
RoundTripKeepsTop ==
    /\ out = KeepTop(val, fp + 1)
    /\ out # {} /\ LeU(out, val)
    /\ (IsPow2(val) \/ MaxOf(val) < fp + 1) => out = val

\* 1000 * |out - val| <= 86 * val
WithinRel86 == LeU(MulNat(AbsDiff(out, val), 1000), MulNat(val, 86))

IntegerRoundTrip ==
    pc \in {"loc_u", "log_u"} /\ frac = 0 /\ val # {}

\* C5 (as stated): for every nonzero value and valid mantissa budget, the
\* uncorrected integer round trip ('log' with no fractional bits, and 'loc')
\* only clears the bits below the fp+1 most significant ones, and the
\* relative error is at most 0.086.
C5_Original ==
    IntegerRoundTrip => (RoundTripKeepsTop /\ WithinRel86)

\* C5 (amended): the round trip only clears the bits below the fp+1 most
\* significant ones, so the relative error is below 2^-fp; it is at most
\* 0.086 for the mantissa budgets fp >= 4.
C5_RoundTripLosesLowBits ==
    IntegerRoundTrip =>
        /\ RoundTripKeepsTop
        /\ LtU(Shl(AbsDiff(out, val), fp, 128), val)
        /\ fp >= 4 => WithinRel86

\* 1000000 went through the 'log' codec of the demo (u64, log32, 25 mantissa
\* bits) and came back with its low bits intact.
C5_Witness ==
    /\ pc = "log_u" /\ frac = 0 /\ hbits = 64 /\ lbits = 32 /\ fp = 25
    /\ val = NatWord(1000000, 64) /\ out = val

\* C7: the 'loc' decoder returns 2^hbits - 1 for every codeword other than
\* the zero sentinel whose exponent field (code >> fp) is >= hbits; the 'log'
\* decoder returns 2^hbits - 1 for every codeword other than the zero
\* sentinel whose exponent plus the output fractional bits is >= hbits.
C7_DecodeSaturates ==
    /\ ( /\ pc \in {"loc_u", "codeword_loc_u"}
         /\ code # intfp_unsigned_min(lbits)
         /\ ~LtU(Shr(code, fp), NatWord(hbits, 8)) )
         => out = Bits(hbits)
    /\ ( /\ pc \in {"log_u", "codeword_log_u"}
         /\ ~IsNeg(code, lbits)
         /\ ~LtU(Shr(code, fp), NatWord(hbits - frac, 8)) )
         => out = Bits(hbits)

\* A positive 'log' codeword whose exponent alone is below hbits saturated
\* because of the output fractional bits.
C7_Witness ==
    /\ pc = "codeword_log_u" /\ frac > 0 /\ ~IsNeg(code, lbits)
    /\ LtU(Shr(code, fp), NatWord(hbits, 8))
    /\ ~LtU(Shr(code, fp), NatWord(hbits - frac, 8))
    /\ out = Bits(hbits)

\* C8: every negative 'log' codeword other than the zero sentinel (a value
\* below 1) decodes to 0 when no fractional output bits are asked for.
C8_NegativeDecodesToZero ==
    ( /\ pc \in {"log_u", "codeword_log_u"} /\ frac = 0
      /\ IsNeg(code, lbits) /\ code # {lbits - 1} )
      => out = {}

(* ------------------------------------------------------------------ *)
(* Properties of two-operand scenarios                                *)
(* ------------------------------------------------------------------ *)

\* a and b are in [1, 2^32).
Below2to32(v) == v # {} /\ v \subseteq Bits(32)

\* C4: for a, b in [1, 2^32), the product recovered from the sum of the two
\* u64 -> log32 max-precision codewords is within 11.2% of a * b, that is
\* 1000 * |r - a*b| <= 112 * a*b; for a = 1000 and b = 2000 the recovered
\* product lies in [1800000, 2220000].
C4_MulBound ==
    (pc = "mul_done" /\ Below2to32(a) /\ Below2to32(b)) =>
        LET ab == MulW(a, b)
            r  == product_recovered
        IN  /\ LeU(MulNat(AbsDiff(r, ab), 1000), MulNat(ab, 112))
            /\ (a = NatWord(1000, 64) /\ b = NatWord(2000, 64)) =>
                 /\ LeU(NatWord(1800000, 64), r)
                 /\ LeU(r, NatWord(2220000, 64))

\* The product of 1000 and 2000 was recovered as 1998848.
C4_Witness ==
    /\ pc = "mul_done"
    /\ a = NatWord(1000, 64) /\ b = NatWord(2000, 64)
    /\ product_recovered = NatWord(1998848, 64)

\* C6: for a fixed (hbits, lbits, fp) and 1 <= a < b, the 'loc' codeword of a
\* is at most that of b (unsigned), the 'log' codeword of a is at most that of
\* b (signed), and the 'log' codeword of 0 is below that of every b >= 1.
C6_EncoderMonotone ==
    /\ (pc = "pair_loc" /\ a # {}) => LeU(log_a, log_b)
    /\ (pc = "pair_log" /\ a # {}) => LeS(log_a, log_b, lbits)
    /\ (pc = "pair_log" /\ a = {}) => LtS(log_a, log_b, lbits)

\* Two neighbouring 64-bit values that differ only below the mantissa were
\* encoded to the same 'log' codeword.
C6_Witness ==
    /\ pc = "pair_log" /\ hbits = 64 /\ lbits = 16
    /\ a # {} /\ LtU(a, b) /\ log_a = log_b

\* C9: for a, b >= 1 with a * b >= 2^64, the product recovered from the sum
\* of the two u64 -> log32 max-precision codewords is 2^64 - 1.
C9_ProductSaturates ==
    ( /\ pc = "mul_done" /\ a # {} /\ b # {}
      /\ ~LtU(MulW(a, b), {64}) )
      => product_recovered = Bits(64)

(* ------------------------------------------------------------------ *)
(* Properties of the codeword-to-codeword functions                   *)
(* ------------------------------------------------------------------ *)

\* C10: for every input and output width and every pair of mantissa budgets,
\* 'loc' to 'loc' maps the 'loc' zero (1) to the 'loc' zero, 'log' to 'log'
\* maps the 'log' zero (the most negative ibits-bit value) to the 'log' zero
\* of obits bits, 'loc' to 'log' maps the 'loc' zero to the 'log' zero, 'log'
\* to 'loc' maps the 'log' zero to the 'loc' zero, and both radix rescale
\* directions return the 'log' zero and the value 0 unchanged (and never
\* trap on them).
C10_ZeroSentinelsSurvive ==
    /\ (pc = "loc_loc" /\ code = {0}) => out = {0}
    /\ (pc = "log_log" /\ code = {ibits - 1}) => out = {obits - 1}
    /\ (pc = "loc_log" /\ code = {0}) => out = {obits - 1}
    /\ (pc = "log_loc" /\ code = {ibits - 1}) => out = {0}
    /\ (pc \in {"to_radix", "from_radix"} /\ code \in {{}, {ibits - 1}})
         => out = code
    /\ pc = "radix_trap" => code \notin {{}, {ibits - 1}}

\* The zero sentinel of s64 was transcoded to an 8-bit 'log' codeword with a
\* different mantissa budget.
C10_Witness ==
    /\ pc = "log_log" /\ ibits = 64 /\ obits = 8 /\ in_fp # out_fp
    /\ code = {63} /\ out = {7}

\* C11: for every input and output width and every pair of mantissa budgets,
\* 'log' to 'loc' returns the 'loc' zero (1) for every negative 'log'
\* codeword.
C11_NegativeLogToLocZero ==
    (pc = "log_loc" /\ IsNeg(code, ibits)) => out = intfp_loc_0(obits)

\* A negative 16-bit codeword other than the zero sentinel was transcoded to
\* a 32-bit 'loc' codeword with a wider mantissa.
C11_Witness ==
    /\ pc = "log_loc" /\ ibits = 16 /\ obits = 32 /\ in_fp < out_fp
    /\ IsNeg(code, ibits) /\ code # intfp_log_0(ibits)
    /\ out = intfp_loc_0(obits)

\* The value of a signed ib-bit word as a 128-bit two's complement word.
Wide(v, ib) == SignExtended(v, ib, 128)

\* A signed codeword realigned from ifp to ofp mantissa bits, exactly:
\* v * 2^(ofp - ifp), rounded toward minus infinity (128 bits).
Realigned(v, ifp, ofp, ib) ==
    LET x == Wide(v, ib)
    IN  IF ofp >= ifp THEN Shl(x, ofp - ifp, 128)
        ELSE Shr(x, ifp - ofp)
               \cup (IF IsNeg(v, ib) THEN (128 - (ifp - ofp)) .. 127 ELSE {})

\* A 128-bit two's complement word whose value a signed ob-bit type holds.
FitsSigned(x, ob) == x = Wide(Trunc(x, ob), ob)

\* C12: for every input and output width, every pair of mantissa budgets and
\* every 'log' codeword other than the zero sentinel whose realigned value
\* fits the signed output type, 'log' to 'log' returns a negative codeword
\* for a negative input and a non-negative one for a non-negative input.
C12_LogToLogKeepsSign ==
    ( /\ pc = "log_log" /\ code # intfp_log_0(ibits)
      /\ FitsSigned(Realigned(code, in_fp, out_fp, ibits), obits) )
      => IsNeg(out, obits) = IsNeg(code, ibits)

\* C13: for every input and output width, every pair of different mantissa
\* budgets and every 'loc' codeword other than the zero sentinel, 'loc' to
\* 'loc' returns v * 2^(ofp - ifp) (ofp > ifp) or floor(v / 2^(ifp - ofp))
\* (ofp < ifp) evaluated in the output width, losing no bit of a result that
\* fits obits bits.
C13_LocToLocRealigns ==
    (pc = "loc_loc" /\ code # intfp_loc_0(ibits) /\ in_fp # out_fp)
      => out = IF out_fp > in_fp THEN Shl(code, out_fp - in_fp, obits)
               ELSE Trunc(Shr(code, in_fp - out_fp), obits)

(* ------------------------------------------------------------------ *)
(* Properties of the EWMA functions                                   *)
(* ------------------------------------------------------------------ *)

\* The floor-clamped arguments and the result of an EWMA call, as 128-bit
\* two's complement words.
EwmaNew == Wide(Clamped(new, bottom_limit, width), width)
EwmaOld == Wide(Clamped(old, bottom_limit, width), width)
EwmaOut == Wide(out, width)

\* adj = ceil(diff / d) for unsigned words with diff > 0 and d > 0.
IsCeilDiv(adj, diff, d) ==
    /\ adj # {}
    /\ LeU(diff, MulW(adj, d))
    /\ LtU(MulW(SubW(adj, {0}, 128), d), diff)

\* The result is old' when new' = old', old' + ceil((new' - old') / damper)
\* when new' > old', and old' - ceil((old' - new') / damper) when new' < old'.
DivStepFormula ==
    IF EwmaNew = EwmaOld THEN EwmaOut = EwmaOld
    ELSE IF LtS(EwmaOld, EwmaNew, 128)
    THEN /\ LtS(EwmaOld, EwmaOut, 128)
         /\ IsCeilDiv(SubW(EwmaOut, EwmaOld, 128),
                      SubW(EwmaNew, EwmaOld, 128), damper)
    ELSE /\ LtS(EwmaOut, EwmaOld, 128)
         /\ IsCeilDiv(SubW(EwmaOld, EwmaOut, 128),
                      SubW(EwmaOld, EwmaNew, 128), damper)

\* damper >= 2
Damping == ~LeU(damper, {0})

\* C14: for every width, all new, old and bottom_limit and every damper >= 2,
\* ewma_s<W>fp_div returns the value of the division step formula, also at
\* the extremes of the range (the call returns; nothing overflows).
C14_DivStep ==
    (pc \in {"ewma_div", "ewma_div_trap"} /\ Damping)
      => (pc = "ewma_div" /\ DivStepFormula)

\* C15 (as stated): for every new # old, every bottom_limit and every
\* damper >= 2, the result of ewma_s<W>fp_div differs from old.
C15_Original ==
    (pc = "ewma_div" /\ Damping /\ new # old) => out # old

\* C15 (amended): for every damper >= 2, whenever the floor-clamped new' and
\* old' differ, the result of ewma_s<W>fp_div differs from old' by at least 1,
\* on the side of new'.
C15_DivAdvances ==
    (pc = "ewma_div" /\ Damping /\ EwmaNew # EwmaOld)
      => IF LtS(EwmaOld, EwmaNew, 128) THEN LtS(EwmaOld, EwmaOut, 128)
         ELSE LtS(EwmaOut, EwmaOld, 128)

\* The clamped inputs differ by less than the damper, and the result is one
\* step away from old'.
C15_Witness ==
    /\ pc = "ewma_div" /\ Damping /\ width = 64
    /\ LtS(EwmaNew, EwmaOld, 128)
    /\ LtU(SubW(EwmaOld, EwmaNew, 128), damper)
    /\ EwmaOut = SubW(EwmaOld, {0}, 128)

\* C16: for every width and every damper >= 2, the result of ewma_s<W>fp_div
\* and of ewma_s<W>fp_shr lies between the floor-clamped inputs,
\* min(old', new') <= result <= max(old', new'), so it is never below
\* bottom_limit.
C16_NeverOvershoots ==
    (pc \in {"ewma_div", "ewma_shr"} /\ Damping)
      => /\ LeS(EwmaOld, EwmaOut, 128) \/ LeS(EwmaNew, EwmaOut, 128)
         /\ LeS(EwmaOut, EwmaOld, 128) \/ LeS(EwmaOut, EwmaNew, 128)
         /\ LeS(Wide(bottom_limit, width), EwmaOut, 128)

\* old lies below the floor and the division step ends strictly between the
\* floor and new.
C16_Witness ==
    /\ pc = "ewma_div" /\ Damping
    /\ LtS(old, bottom_limit, width)
    /\ LtS(Wide(bottom_limit, width), EwmaOut, 128)
    /\ LtS(EwmaOut, EwmaNew, 128)

SignedDiff(x, y) == IF LtS(x, y, 128) THEN SubW(y, x, 128) ELSE SubW(x, y, 128)

\* |back - code| of a 32-bit round trip.
RoundTripDiff == SignedDiff(Wide(back, 32), Wide(code, 32))

\* C18: for every 32-bit 'log' value v, rescaling v to the DB_POWER radix and
\* back returns a value that differs from v by at most 1 (both calls return).
C18_DbPowerRoundTrip ==
    (/\ pc \in {"round_trip", "radix_trap"} /\ ibits = 32
     /\ type = "U32FP_RADIX_TYPE_DB_POWER")
      => (pc = "round_trip" /\ LeU(RoundTripDiff, {0}))

\* The 64-bit product of the rescale to a radix, shifted, fits the positive
\* range of s32 for the magnitude of code.
NoRescaleOverflow ==
    LET av == IF IsNeg(code, 32) THEN NegW(code, 32) ELSE code
    IN  Shr(Trunc(MulW(av, u32fp_radix_tbl[type].to), 64),
            u32fp_radix_tbl[type].to_shr) \subseteq Bits(31)

\* C19: the rescale to the 1.25 radix and back is not an exact round trip:
\* for the 32-bit value v = u64_to_log32fp(12345, 25) no intermediate result
\* overflows and the value that comes back differs from v by more than 1.
C19_Ratio125NotExact ==
    (/\ pc = "round_trip" /\ ibits = 32 /\ type = "U32FP_RADIX_TYPE_1_25"
     /\ code = test_log_val)
      => (NoRescaleOverflow /\ ~LeU(RoundTripDiff, {0}))

\* The demo's round trip through the 1.25 radix: 453218304 comes back as
\* 453218297.
C19_Witness ==
    /\ pc = "round_trip" /\ ibits = 32 /\ type = "U32FP_RADIX_TYPE_1_25"
    /\ code = NatWord(453218304, 32)
    /\ out = NatWord(1407824639, 32)
    /\ back = NatWord(453218297, 32)

(* ------------------------------------------------------------------ *)
(* Properties of the integer <-> fixed-point conversions              *)
(* ------------------------------------------------------------------ *)

\* floor(x / 2^k) of an unsigned word x, narrowed to bits.
FloorU(x, k, bits) == Trunc(Shr(x, k), bits)

\* floor(x / 2^k) of a signed xbits-wide word x, narrowed to bits: the sign
\* is carried as far up as the shift reaches down.
FloorS(x, k, xbits, bits) ==
    Trunc(Shr(x \cup (IF IsNeg(x, xbits) THEN xbits .. (xbits + k + bits)
                      ELSE {}), k), bits)

\* v * 2^k is below 2^bits, v an unsigned word.
FitsShiftedU(v, k, bits) == v = {} \/ MaxOf(v) + k < bits

\* v * 2^k lies in -2^(bits-1) .. 2^(bits-1) - 1, v a signed vbits-wide word.
FitsShiftedS(v, k, vbits, bits) ==
    IF IsNeg(v, vbits)
    THEN LET m == NegW(v, vbits)
         IN  \/ MaxOf(m) + k < bits - 1
             \/ m = {MaxOf(m)} /\ MaxOf(m) + k = bits - 1
    ELSE FitsShiftedU(v, k, bits - 1)

\* from_fp(x, F) is floor(x / 2^F) narrowed to L bits, and from_fp(to_fp(v,
\* F), F) is v when v * 2^F fits in H bits, for the unsigned and the signed
\* conversions.
LinearContract ==
    /\ pc = "ufp_to_u" => out = FloorU(val, fp, lbits)
    /\ pc = "sfp_to_s" => out = FloorS(val, fp, hbits, lbits)
    /\ (pc = "u_round_trip" /\ FitsShiftedU(val, fp, hbits)) => back = val
    /\ (pc = "s_round_trip" /\ FitsShiftedS(val, fp, lbits, hbits))
         => back = val

\* C20 (as stated): for every instantiated (H, L) and every fractional count
\* F, from_fp(x, F) is floor(x / 2^F) narrowed to L bits (an arithmetic shift
\* for signed x), and from_fp(to_fp(v, F), F) = v for every L-bit v whose
\* v * 2^F fits in H bits.
C20_Original == LinearContract

\* C20 (amended): the same for every fractional count F below the width the
\* shift is evaluated in, 32 for H <= 32 and 64 for H = 64.
C20_LinearFixedPoint == (fp < Promoted(hbits)) => LinearContract

\* A negative value went to fixed point with a fractional part and came back
\* unchanged.
C20_Witness ==
    /\ pc = "s_round_trip" /\ hbits = 32 /\ lbits = 16
    /\ fp >= 1 /\ fp < Promoted(hbits)
    /\ IsNeg(val, lbits) /\ FitsShiftedS(val, fp, lbits, hbits)
    /\ out = Shl(SignExtended(val, lbits, hbits), fp, hbits)
    /\ back = val

(* ------------------------------------------------------------------ *)
(* Properties of the max-precision budgets                            *)
(* ------------------------------------------------------------------ *)

\* fls(H - 1) for the four widths: fls(7) = 3, fls(15) = 4, fls(31) = 5,
\* fls(63) = 6.
FlsOfWidth(h) ==
    CASE h = 8 -> 3 [] h = 16 -> 4 [] h = 32 -> 5 [] h = 64 -> 6



\* C21: for H and L in {8, 16, 32, 64}, intfp_loc_fpmax(H, L) is
\* L - fls(H - 1) and intfp_log_fpmax(H, L) is L - 1 - fls(H - 1); in
\* particular intfp_log_fpmax(64, 32) = 25 and intfp_loc_fpmax(64, 16) = 10,
\* and every result is at least 1.
C21_MaxBudgets ==
    (hbits \in {8, 16, 32, 64} /\ lbits \in {8, 16, 32, 64})
      => /\ pc = "loc_fpmax"
              => /\ fp = lbits - FlsOfWidth(hbits) /\ fp >= 1
                 /\ (hbits = 64 /\ lbits = 16) => fp = 10
         /\ pc = "log_fpmax"
              => /\ fp = lbits - 1 - FlsOfWidth(hbits) /\ fp >= 1
                 /\ (hbits = 64 /\ lbits = 32) => fp = 25

\* The smallest budget of the four widths: the 'log' budget of a 64-bit value
\* in an 8-bit codeword is 1.
C21_Witness ==
    pc = "log_fpmax" /\ hbits = 64 /\ lbits = 8 /\ fp = 1

(* ------------------------------------------------------------------ *)
(* Properties of the corrected codec                                  *)
(* ------------------------------------------------------------------ *)

\* C22: u64_to_log32fpmax_corr(0) is the zero sentinel of 'log',
\* log32fpmax_to_u64_corr of the sentinel is 0, and for every k in 0..63
\* log32fpmax_to_u64_corr(u64_to_log32fpmax_corr(2^k)) is 2^k exactly.
C22_CorrBoundaries ==
    (hbits = 64 /\ lbits = 32)
      => /\ (pc = "log_corr" /\ val = {}) => code = intfp_signed_min(32)
         /\ (pc = "codeword_log_u_corr" /\ code = intfp_signed_min(32))
              => out = {}
         /\ (pc = "log_u_corr" /\ IsPow2(val))
              => (code = Shl(NatWord(MaxOf(val), 32), 25, 32) /\ out = val)

\* The largest power of two went through the corrected codec and came back.
C22_Witness ==
    /\ pc = "log_u_corr" /\ hbits = 64 /\ lbits = 32
    /\ val = {63} /\ code = {25, 26, 27, 28, 29, 30} /\ out = {63}

\* The n bits of v immediately below its leading 1, as an n-bit field: bit
\* MaxOf(v) - 1 of v is bit n - 1 of the field, and the field is padded with
\* zeros on the right when v has fewer bits.
MantissaField(v, n) ==
    LET k == MaxOf(v)
    IN  { (i + n) - k : i \in { j \in v : j < k /\ j + n >= k } }

\* The plain packing of a value v >= 2: floor(log2(v)) above n mantissa bits.
PlainPacking(v, n, bits) ==
    Shl(NatWord(MaxOf(v), 8), n, bits) \cup MantissaField(v, n)

\* C23: for every (H, L), every valid mantissa budget M and every v >= 2 the
\* 'loc' encoder's codeword c has c >> M = floor(log2(v)) and c mod 2^M = the
\* M bits of v immediately below its leading 1 (zero-padded on the right),
\* and the 'log' encoder with no fractional input bits returns the same bits.
C23_PlainLayout ==
    (val # {} /\ val # {0} /\ (pc = "loc" \/ (pc = "log" /\ frac = 0)))
      => /\ Shr(code, fp) = NatWord(MaxOf(val), 8)
         /\ Trunc(code, fp) = MantissaField(val, fp)
         /\ code = PlainPacking(val, fp, lbits)

\* 3 is encoded with ten mantissa bits in 16 bits: exponent 1, and a mantissa
\* of the one bit below the leading 1 followed by nine zeros.
C23_Witness ==
    /\ pc = "loc" /\ hbits = 64 /\ lbits = 16 /\ fp = 10
    /\ val = {0, 1} /\ code = {9, 10}

\* C24: for every unsigned fixed-point value v with F fractional bits and
\* 0 < v < 2^F, decoding the 'log' encoding of v with the same F and mantissa
\* budget M returns v with only the bits below its M + 1 most significant
\* bits cleared.
C24_SubUnitRoundTrip ==
    (pc = "log_u" /\ val # {} /\ MaxOf(val) < frac)
      => out = KeepTop(val, fp + 1)

\* C25: for fixed (H, L, M, F') and any two 'log' codewords c1 <= c2 in signed
\* order, neither the zero sentinel, the decoded values are in the same
\* order: log<L>fp_to_u<H>fp(c1, M, F') <= log<L>fp_to_u<H>fp(c2, M, F').
C25_DecodeKeepsOrder ==
    (/\ pc = "pair_decoded"
     /\ log_a # intfp_signed_min(lbits) /\ log_b # intfp_signed_min(lbits)
     /\ LeS(log_a, log_b, lbits))
      => LeU(a, b)

\* The number of bits of v from its leading 1 down to its lowest 1.
SignificantBits(v) == (MaxOf(v) - MinOf(v)) + 1

\* C26: for all u64 a, b >= 1 with a * b < 2^64 the product recovered from
\* the sum of the two u64 -> log32 max-precision codewords is at most a * b
\* (the sum fits s32), and it is a * b when a or b is a power of two and the
\* product has at most 26 significant bits.
C26_NeverOverestimates ==
    (pc \in {"mul_done", "mul_trap"} /\ a # {} /\ b # {})
      => LET product == MulW(a, b)
         IN  LtU(product, {64})
               => /\ pc = "mul_done"
                  /\ LeU(product_recovered, product)
                  /\ ((IsPow2(a) \/ IsPow2(b))
                        /\ SignificantBits(product) <= 26)
                       => product_recovered = product

\* The test's operands: 1000 * 2000 is recovered as 1998848, below 2000000.
C26_Witness ==
    /\ pc = "mul_done"
    /\ a = NatWord(1000, 64) /\ b = NatWord(2000, 64)
    /\ product_recovered = NatWord(1998848, 64)

\* C27: for every (H, L), every mantissa budget M in 1 .. L - 1 - fls(H - 1)
\* and every integer v in [1, 2^H), u<H>_to_log<L>fp(v, M) lies in
\* [0, 2^(L-1)), is not the zero sentinel and is 0 only for v = 1; and for M
\* in 1 .. L - fls(H - 1) the 'loc' codeword of a v >= 2, computed without a
\* width, is below 2^L: storing it in L bits drops nothing.
C27_SignBitUntouched ==
    /\ (pc = "log" /\ frac = 0 /\ val # {})
         => /\ ~IsNeg(code, lbits)
            /\ code # intfp_signed_min(lbits)
            /\ (code = {}) = (val = {0})
    /\ (pc = "loc" /\ val # {} /\ val # {0})
         => /\ PlainPacking(val, fp, 128) \subseteq Bits(lbits)
            /\ code = PlainPacking(val, fp, 128)

\* The largest u64 encoded in 8 bits with the one mantissa bit there is room
\* for: the largest positive codeword.
C27_Witness ==
    /\ pc = "log" /\ frac = 0 /\ hbits = 64 /\ lbits = 8 /\ fp = 1
    /\ val = Bits(64) /\ code = Bits(7)

\* C28: for every width pair and every (M_in, M_out) with M_out >= 1 whose
\* shift distance C defines, log<I>fp_to_loc<O>fp returns the 'loc' zero only
\* for a negative codeword and loc<I>fp_to_loc<O>fp only for the 'loc' zero:
\* no other codeword, such as 'log' codeword 1 with M_in = M_out or a small
\* positive codeword shifted right onto 1, is converted to the 'loc' zero.
C28_NoManufacturedZero ==
    (/\ pc \in {"log_loc", "loc_loc"}
     /\ out_fp >= 1
     /\ in_fp - out_fp < Promoted(ibits) /\ out_fp - in_fp < Promoted(ibits)
     /\ out = intfp_loc_0(obits))
      => IF pc = "log_loc" THEN IsNeg(code, ibits)
                           ELSE code = intfp_loc_0(ibits)

\* |n - o| of two signed words of the width of the call.
Gap(n, o) == SignedDiff(Wide(n, width), Wide(o, width))

\* The target of the iteration is not below the floor.
TargetAboveFloor == LeS(bottom_limit, new, width)

\* C29: for every width, fixed new >= bottom_limit, damper >= 2 and any
\* starting old, every step old <- ewma_s<W>fp_div(new, old, bottom_limit,
\* damper) returns and, while old # new, strictly decreases |new - old|, a
\* natural number, so that old = new is reached within |new - old| steps;
\* from old = new every step returns new again.
C29_DivConverges ==
    [][(pc = "iter_div" /\ TargetAboveFloor)
         => /\ pc' = "iter_div"
            /\ IF old # new THEN LtU(Gap(new, old'), Gap(new, old))
               ELSE old' = new]_vars

\* |new' - old'| >> damper, new' and old' the floor-clamped inputs.
ShrAdjust == Shr(SignedDiff(EwmaNew, EwmaOld), WordNat(damper))

\* C30: for every width, shift damper >= 2 and floor-clamped inputs new' and
\* old', every step old <- ewma_s<W>fp_shr(new, old, bottom_limit, damper)
\* returns; when 0 < |new' - old'| < 2^damper it returns old', so that the
\* iteration stays at a value different from new' forever; when
\* |new' - old'| >= 2^damper it moves old' toward new' by
\* floor(|new' - old'| / 2^damper).
C30_ShrStalls ==
    [][(pc = "iter_shr" /\ Damping /\ EwmaNew # EwmaOld)
         => /\ pc' = "iter_shr"
            /\ Wide(old', width)
                 = IF ShrAdjust = {} THEN EwmaOld
                   ELSE IF LtS(EwmaOld, EwmaNew, 128)
                        THEN AddW(EwmaOld, ShrAdjust, 128)
                        ELSE SubW(EwmaOld, ShrAdjust, 128)]_vars

====
